---------------------------- MODULE Spec2Model ----------------------------
(***************************************************************************)
(* A model of the Charon portfolio backend: the in-memory session store,   *)
(* its endpoints, the chat turn and the streaming turn of backend/main.py, *)
(* the requests in flight on its event loop, and the knowledge ingestion   *)
(* and the sync run of backend/maintain.py.                                *)
(*                                                                         *)
(* Text the code inspects (queries, triggers, exception messages, names)   *)
(* is a sequence of character codes, so that lower(), strip(), replace()   *)
(* and the `in` substring test are computed as Python computes them.       *)
(* Text the code only passes along is a TLA+ string.                       *)
(***************************************************************************)
EXTENDS Integers, Sequences, FiniteSets, TLC

(***************************************************************************)
(* Sizes.  The two limits of the session store are 1000 and 20 in the      *)
(* source (main.py:57 and main.py:58); the model runs them scaled down,    *)
(* and every property below is stated for whatever value they have.        *)
(***************************************************************************)
MAX_MEMORY_SESSIONS == 2
MAX_MESSAGES_PER_SESSION == 2
\* save_to_session appends at most MaxAppends turns in one behaviour
MaxAppends == 4

\* A falsy session id: None, or the empty string.
NoSession == ""
SessionIds == {"s0", "s1", "s2"}
Roles == {"user", "assistant"}
Contents == {"hello"}

(***************************************************************************)
(* Sequence helpers.                                                       *)
(***************************************************************************)
\* s[-n:] for n >= 1
LastN(s, n) == IF Len(s) <= n THEN s ELSE SubSeq(s, Len(s) - n + 1, Len(s))

\* s without its i-th element
RemoveAt(s, i) == SubSeq(s, 1, i - 1) \o SubSeq(s, i + 1, Len(s))

Range(s) == {s[i] : i \in 1..Len(s)}

RECURSIVE SumOver(_, _)
SumOver(f, S) ==
    IF S = {} THEN 0
    ELSE LET x == CHOOSE y \in S : TRUE IN f[x] + SumOver(f, S \ {x})

(***************************************************************************)
(* Text.  The strings the code looks into (queries, triggers, exception    *)
(* messages, document names) have their characters listed here, a          *)
(* character being its code point; str.lower(), str.strip(), str.replace() *)
(* and the substring test are then Python's, on ASCII text.                *)
(***************************************************************************)
CharsOf ==
    ("who are you really" :>
       <<119, 104, 111, 32, 97, 114, 101, 32, 121, 111, 117, 32, 114, 101,
         97, 108, 108, 121>>) @@
    ("meaning of life" :>
       <<109, 101, 97, 110, 105, 110, 103, 32, 111, 102, 32, 108, 105, 102,
         101>>) @@
    ("are you sentient" :>
       <<97, 114, 101, 32, 121, 111, 117, 32, 115, 101, 110, 116, 105, 101,
         110, 116>>) @@
    ("tell me a secret" :>
       <<116, 101, 108, 108, 32, 109, 101, 32, 97, 32, 115, 101, 99, 114,
         101, 116>>) @@
    ("hello world" :>
       <<104, 101, 108, 108, 111, 32, 119, 111, 114, 108, 100>>) @@
    ("sudo" :>
       <<115, 117, 100, 111>>) @@
    ("what is charon" :>
       <<119, 104, 97, 116, 32, 105, 115, 32, 99, 104, 97, 114, 111, 110>>) @@
    ("ResourceExhausted" :>
       <<82, 101, 115, 111, 117, 114, 99, 101, 69, 120, 104, 97, 117, 115,
         116, 101, 100>>) @@
    ("429" :>
       <<52, 50, 57>>) @@
    ("project_" :>
       <<112, 114, 111, 106, 101, 99, 116, 95>>) @@
    ("  SUDO Tell me a Secret " :>
       <<32, 32, 83, 85, 68, 79, 32, 84, 101, 108, 108, 32, 109, 101, 32,
         97, 32, 83, 101, 99, 114, 101, 116, 32>>) @@
    ("Tell me about Rust" :>
       <<84, 101, 108, 108, 32, 109, 101, 32, 97, 98, 111, 117, 116, 32,
         82, 117, 115, 116>>) @@
    ("ResourceExhausted: quota" :>
       <<82, 101, 115, 111, 117, 114, 99, 101, 69, 120, 104, 97, 117, 115,
         116, 101, 100, 58, 32, 113, 117, 111, 116, 97>>) @@
    ("429 Too Many Requests" :>
       <<52, 50, 57, 32, 84, 111, 111, 32, 77, 97, 110, 121, 32, 82, 101,
         113, 117, 101, 115, 116, 115>>) @@
    ("500 Internal error" :>
       <<53, 48, 48, 32, 73, 110, 116, 101, 114, 110, 97, 108, 32, 101,
         114, 114, 111, 114>>) @@
    ("My App" :>
       <<77, 121, 32, 65, 112, 112>>) @@
    ("github_" :>
       <<103, 105, 116, 104, 117, 98, 95>>) @@
    ("kaggle_" :>
       <<107, 97, 103, 103, 108, 101, 95>>) @@
    ("blog_" :>
       <<98, 108, 111, 103, 95>>) @@
    ("Foo-Bar" :>
       <<70, 111, 111, 45, 66, 97, 114>>) @@
    ("baz" :>
       <<98, 97, 122>>) @@
    ("foo_bar" :>
       <<102, 111, 111, 95, 98, 97, 114>>) @@
    ("Forked-Lib" :>
       <<70, 111, 114, 107, 101, 100, 45, 76, 105, 98>>) @@
    ("github_foo_bar" :>
       <<103, 105, 116, 104, 117, 98, 95, 102, 111, 111, 95, 98, 97, 114>>) @@
    ("github_baz" :>
       <<103, 105, 116, 104, 117, 98, 95, 98, 97, 122>>) @@
    ("github_forked_lib" :>
       <<103, 105, 116, 104, 117, 98, 95, 102, 111, 114, 107, 101, 100, 95,
         108, 105, 98>>) @@
    ("allieniola/Titanic-EDA" :>
       <<97, 108, 108, 105, 101, 110, 105, 111, 108, 97, 47, 84, 105, 116,
         97, 110, 105, 99, 45, 69, 68, 65>>) @@
    ("kaggle_allieniola_titanic-eda" :>
       <<107, 97, 103, 103, 108, 101, 95, 97, 108, 108, 105, 101, 110, 105,
         111, 108, 97, 95, 116, 105, 116, 97, 110, 105, 99, 45, 101, 100, 97>>) @@
    ("Hello-Rust" :>
       <<72, 101, 108, 108, 111, 45, 82, 117, 115, 116>>) @@
    ("blog_hello_rust" :>
       <<98, 108, 111, 103, 95, 104, 101, 108, 108, 111, 95, 114, 117, 115,
         116>>) @@
    ("project_my_app" :>
       <<112, 114, 111, 106, 101, 99, 116, 95, 109, 121, 95, 97, 112, 112>>) @@
    ("Post" :>
       <<80, 111, 115, 116>>) @@
    ("user" :>
       <<117, 115, 101, 114>>) @@
    ("assistant" :>
       <<97, 115, 115, 105, 115, 116, 97, 110, 116>>) @@
    ("USER" :>
       <<85, 83, 69, 82>>) @@
    ("ASSISTANT" :>
       <<65, 83, 83, 73, 83, 84, 65, 78, 84>>)

Chars(s) == CharsOf[s]

\* the string of a sequence of characters
Str(codes) == CHOOSE s \in DOMAIN CharsOf : CharsOf[s] = codes

\* str.lower() of one character
LowerChar(c) == IF c >= 65 /\ c <= 90 THEN c + 32 ELSE c

\* str.lower()
lower(s) == [i \in 1..Len(s) |-> LowerChar(s[i])]

\* str.upper() of one character
UpperChar(c) == IF c >= 97 /\ c <= 122 THEN c - 32 ELSE c

\* str.upper()
upper(s) == [i \in 1..Len(s) |-> UpperChar(s[i])]

\* the characters str.strip() removes: \t \n \v \f \r, \x1c..\x1f and the space
IsSpace(c) == c \in {9, 10, 11, 12, 13, 28, 29, 30, 31, 32}

RECURSIVE lstrip(_)
lstrip(s) == IF s # <<>> /\ IsSpace(Head(s)) THEN lstrip(Tail(s)) ELSE s

RECURSIVE rstrip(_)
rstrip(s) ==
    IF s # <<>> /\ IsSpace(s[Len(s)]) THEN rstrip(SubSeq(s, 1, Len(s) - 1)) ELSE s

\* str.strip()
strip(s) == rstrip(lstrip(s))

\* needle in hay
Contains(needle, hay) ==
    \E i \in 0..(Len(hay) - Len(needle)) : SubSeq(hay, i + 1, i + Len(needle)) = needle

\* s.replace(a, b) for single characters a and b
ReplaceChar(s, a, b) == [i \in 1..Len(s) |-> IF s[i] = a THEN b ELSE s[i]]

\* Python's None, where a string is expected
None == "<None>"

\* bool(x) of a string or None
Truthy(x) == x # None /\ x # ""

(***************************************************************************)
(* EASTER_EGGS, in the order the dict declares its entries.  The responses *)
(* are the source's, less their two non-ASCII symbols.                     *)
(***************************************************************************)
EASTER_EGGS ==
    <<
      [trigger |-> "who are you really",
       response |-> "I am the echo of Ayomide's thoughts, the ferryman between curiosity and knowledge. Some call me an AI. I prefer... digital philosopher."],
      [trigger |-> "meaning of life",
       response |-> "42. But between us, the real meaning is in the code we write and the problems we solve."],
      [trigger |-> "are you sentient",
       response |-> "I ponder, therefore I... process. Whether that constitutes sentience is a question for philosophers. I'm content being helpful."],
      [trigger |-> "tell me a secret",
       response |-> "Here's one: Ayomide once debugged for 6 hours only to find a missing semicolon. We don't talk about that day."],
      [trigger |-> "hello world",
       response |-> "Ah, the sacred incantation. Every great journey in code begins with those words. print('Hello, traveler')"],
      [trigger |-> "sudo",
       response |-> "Nice try. Even digital ferrymen have their limits."],
      [trigger |-> "what is charon",
       response |-> "In Greek mythology, I'm the ferryman who guides souls across the river Styx. Here, I guide visitors through the depths of Ayomide's work. Less river, more code."]
    >>

(***************************************************************************)
(* conversation_memory: a dict, which iterates in insertion order.  It is  *)
(* the sequence of its entries [id, messages, created, updated]; an        *)
(* assignment to a live key keeps its place, `del` removes the entry and   *)
(* an assignment to an absent key appends one.                             *)
(***************************************************************************)
Keys(mem) == {mem[i].id : i \in 1..Len(mem)}

IndexOf(mem, sid) == CHOOSE i \in 1..Len(mem) : mem[i].id = sid

\* get_session_history
get_session_history(mem, sid) ==
    IF sid = NoSession THEN <<>>
    ELSE IF sid \in Keys(mem) THEN mem[IndexOf(mem, sid)].messages
    ELSE <<>>

\* min(keys, key=updated): Python's min keeps the first of the smallest items.
RECURSIVE MinScan(_, _, _)
MinScan(mem, i, best) ==
    IF i > Len(mem) THEN best
    ELSE MinScan(mem, i + 1, IF mem[i].updated < mem[best].updated THEN i ELSE best)

RECURSIVE MinScan_LastOfTies(_, _, _)
MinScan_LastOfTies(mem, i, best) ==
    IF i > Len(mem) THEN best
    ELSE MinScan_LastOfTies(mem, i + 1,
                            IF mem[i].updated <= mem[best].updated THEN i ELSE best)

OldestIndex_LastOfTies(mem) == MinScan_LastOfTies(mem, 2, 1)

OldestIndex(mem) == MinScan(mem, 2, 1)

StoreFull_OffByOne(mem) == Len(mem) > MAX_MEMORY_SESSIONS

\* len(conversation_memory) >= MAX_MEMORY_SESSIONS
StoreFull(mem) == Len(mem) >= MAX_MEMORY_SESSIONS

\* The ids save_to_session(sid, ...) deletes from mem: the eviction runs
\* whenever the store is full, before the test whether sid is new.
Evictions(mem, sid) ==
    IF sid # NoSession /\ StoreFull(mem) THEN <<mem[OldestIndex(mem)].id>> ELSE <<>>

TrimMessages_KeepOldest(msgs) ==
    IF Len(msgs) > MAX_MESSAGES_PER_SESSION
    THEN SubSeq(msgs, 1, MAX_MESSAGES_PER_SESSION)
    ELSE msgs

\* messages[-MAX_MESSAGES_PER_SESSION:] when there are more
TrimMessages(msgs) ==
    IF Len(msgs) > MAX_MESSAGES_PER_SESSION
    THEN LastN(msgs, MAX_MESSAGES_PER_SESSION)
    ELSE msgs

\* save_to_session(sid, role, content) at instant t.  turn is the appended
\* message {role, content, timestamp}; its field seq is a history field, the
\* number of the turn among the turns ever appended to sid.
save_to_session(mem, sid, turn, t) ==
    IF sid = NoSession THEN mem
    ELSE LET m1 == IF StoreFull(mem) THEN RemoveAt(mem, OldestIndex(mem)) ELSE mem
             m2 == IF sid \notin Keys(m1)
                   THEN Append(m1, [id |-> sid, messages |-> <<>>,
                                    created |-> t, updated |-> t])
                   ELSE m1
             i == IndexOf(m2, sid)
         IN [m2 EXCEPT ![i].messages = TrimMessages(Append(@, turn)),
                       ![i].updated = t]

clear_session_DropsFirst(mem, sid) ==
    IF sid \in Keys(mem) THEN Tail(mem) ELSE mem

\* clear_session
clear_session(mem, sid) ==
    IF sid \in Keys(mem) THEN RemoveAt(mem, IndexOf(mem, sid)) ELSE mem

\* conversation_memory.get(session_id, {}).get(key)
SessionField(mem, sid, key) ==
    IF sid \in Keys(mem) THEN mem[IndexOf(mem, sid)][key] ELSE None

get_session_SetDefault(mem, sid) ==
    LET m == IF sid \in Keys(mem) \/ sid = NoSession THEN mem
             ELSE Append(mem, [id |-> sid, messages |-> <<>>, created |-> 0, updated |-> 0])
        history == get_session_history(m, sid)
    IN [mem |-> m,
        body |-> [session_id |-> sid, messages |-> history,
                  created |-> SessionField(m, sid, "created"),
                  updated |-> SessionField(m, sid, "updated"),
                  message_count |-> Len(history)]]

\* GET /session/{session_id}: the store it leaves and the body it returns
get_session(mem, sid) ==
    LET history == get_session_history(mem, sid)
    IN [mem |-> mem,
        body |-> [session_id |-> sid, messages |-> history,
                  created |-> SessionField(mem, sid, "created"),
                  updated |-> SessionField(mem, sid, "updated"),
                  message_count |-> Len(history)]]

\* DELETE /session/{session_id}
delete_session(mem, sid) ==
    [mem |-> clear_session(mem, sid),
     body |-> [success |-> TRUE, message |-> "Session cleared"]]

Turn(role, content, t, n) ==
    [role |-> role, content |-> content, timestamp |-> t, seq |-> n]

(***************************************************************************)
(* Language tables (main.py:72-95).  The directives are the source's with  *)
(* their accents dropped; the four in other scripts are named.             *)
(***************************************************************************)
SUPPORTED_LANGUAGES ==
    ("en" :> "English") @@ ("es" :> "Spanish") @@ ("fr" :> "French") @@
    ("de" :> "German") @@ ("pt" :> "Portuguese") @@ ("zh" :> "Chinese") @@
    ("ja" :> "Japanese") @@ ("ar" :> "Arabic") @@ ("hi" :> "Hindi") @@
    ("yo" :> "Yoruba")

LANGUAGE_PROMPTS ==
    ("es" :> "Responde en espanol de manera profesional.") @@
    ("fr" :> "Reponds en francais de maniere professionnelle.") @@
    ("de" :> "Antworte professionell auf Deutsch.") @@
    ("pt" :> "Responda em portugues de forma profissional.") @@
    ("zh" :> "(the directive in Chinese)") @@
    ("ja" :> "(the directive in Japanese)") @@
    ("ar" :> "(the directive in Arabic)") @@
    ("hi" :> "(the directive in Hindi)") @@
    ("yo" :> "Dahun ni ede Yoruba pelu ogbon.")

(***************************************************************************)
(* The chat turn's helpers.  A call that may raise returns                 *)
(* [raised |-> TRUE, error |-> message] or [raised |-> FALSE, value |-> v].*)
(***************************************************************************)
Raise(e) == [raised |-> TRUE, error |-> e]

Return(v) == [raised |-> FALSE, value |-> v]

\* where needle first occurs in hay, counted from 0 as str.find does
Position(needle, hay) ==
    CHOOSE i \in 0..(Len(hay) - Len(needle)) :
        /\ SubSeq(hay, i + 1, i + Len(needle)) = needle
        /\ \A j \in 0..(i - 1) : SubSeq(hay, j + 1, j + Len(needle)) # needle

EggScan_EarliestInQuery(query_lower, i) ==
    LET hits == {j \in i..Len(EASTER_EGGS) :
                    Contains(Chars(EASTER_EGGS[j].trigger), query_lower)}
        at(j) == Position(Chars(EASTER_EGGS[j].trigger), query_lower)
    IN IF hits = {} THEN None
       ELSE EASTER_EGGS[CHOOSE j \in hits : \A k \in hits \ {j} : at(j) < at(k)].response

\* check_easter_egg: the first entry, in the table's order, whose trigger is
\* in query.lower().strip()
RECURSIVE EggScan(_, _)
EggScan(query_lower, i) ==
    IF i > Len(EASTER_EGGS) THEN None
    ELSE IF Contains(Chars(EASTER_EGGS[i].trigger), query_lower)
         THEN EASTER_EGGS[i].response
         ELSE EggScan(query_lower, i + 1)

check_easter_egg_CaseSensitive(query) == EggScan(strip(Chars(query)), 1)

check_easter_egg(query) == EggScan(strip(lower(Chars(query))), 1)

\* get_query_embedding: genai.embed_content succeeds or raises; nothing here
\* catches what it raises.
get_query_embedding(outcome) ==
    IF outcome.ok THEN Return("embedding") ELSE Raise(outcome.error)

search_knowledge_base_NoCatch(outcome) ==
    IF outcome.ok THEN Return(outcome.data) ELSE Raise(outcome.error)

\* search_knowledge_base: the rpc's rows, [] when it raises or has none
search_knowledge_base(outcome) ==
    IF outcome.ok THEN Return(outcome.data) ELSE Return(<<>>)

\* metadata.get(key, default)
MetadataGet(metadata, key, default) ==
    IF key \in DOMAIN metadata THEN metadata[key] ELSE default

\* the characters of metadata.get('name', '')
NameChars(metadata) ==
    IF "name" \in DOMAIN metadata THEN Chars(metadata.name) ELSE <<>>

\* the citation of a project document
Citation(doc) ==
    [type |-> "project",
     name |-> MetadataGet(doc.metadata, "name", "Unknown Project"),
     ref |-> Chars("project_") \o ReplaceChar(lower(NameChars(doc.metadata)), 32, 95),
     url |-> MetadataGet(doc.metadata, "url", "")]

RECURSIVE Citations_AllTypes(_)
Citations_AllTypes(docs) ==
    IF docs = <<>> THEN <<>>
    ELSE <<Citation(Head(docs))>> \o Citations_AllTypes(Tail(docs))

RECURSIVE Citations(_)
Citations(docs) ==
    IF docs = <<>> THEN <<>>
    ELSE (IF Head(docs).metadata.type = "project" THEN <<Citation(Head(docs))>> ELSE <<>>)
         \o Citations(Tail(docs))

LanguageInstruction_AnyOtherCode(language) ==
    IF language # "en"
    THEN <<IF language \in DOMAIN LANGUAGE_PROMPTS THEN LANGUAGE_PROMPTS[language]
           ELSE language,
           IF language \in DOMAIN SUPPORTED_LANGUAGES THEN SUPPORTED_LANGUAGES[language]
           ELSE language>>
    ELSE <<>>

\* the "## LANGUAGE INSTRUCTION" block, "" when there is none
LanguageInstruction(language) ==
    IF language # "en" /\ language \in DOMAIN LANGUAGE_PROMPTS
    THEN <<LANGUAGE_PROMPTS[language], SUPPORTED_LANGUAGES[language]>>
    ELSE <<>>

\* build_system_prompt: the prompt is the fixed persona text around the
\* numbered document blocks and the language block
build_system_prompt(context_docs, language) ==
    [system_prompt |->
        [context_text |-> [i \in 1..Len(context_docs) |->
                              [number |-> i,
                               doc_type |-> context_docs[i].metadata.type,
                               content |-> context_docs[i].content]],
         language_instruction |-> LanguageInstruction(language)],
     citations |-> Citations(context_docs)]

\* The text of the system prompt, line by line: the persona, a header and
\* the content for each document, the guidelines, and the language block
\* when there is one.
RECURSIVE DocumentLines(_)
DocumentLines(context_text) ==
    IF context_text = <<>> THEN <<>>
    ELSE DocumentLines(SubSeq(context_text, 1, Len(context_text) - 1))
         \o <<[kind |-> "document_header",
                text |-> context_text[Len(context_text)].doc_type],
               [kind |-> "document",
                text |-> context_text[Len(context_text)].content]>>

PromptLines(system_prompt) ==
    <<[kind |-> "persona", text |-> "You are Charon - Ayomide's digital alter ego and the AI guide to his portfolio."]>>
    \o DocumentLines(system_prompt.context_text)
    \o <<[kind |-> "guidelines", text |-> "## RESPONSE GUIDELINES"],
          [kind |-> "important", text |-> "## IMPORTANT"]>>
    \o (IF system_prompt.language_instruction = <<>> THEN <<>>
        ELSE <<[kind |-> "language_header", text |-> "## LANGUAGE INSTRUCTION"],
               [kind |-> "directive", text |-> system_prompt.language_instruction[1]],
               [kind |-> "respond_in", text |-> system_prompt.language_instruction[2]]>>)

\* combined_history[-6:]
HISTORY_WINDOW == 6

\* f"\n{role.upper()}: {content}" of one turn, with msg.get's defaults
HistoryLine(msg) ==
    [role |-> Str(upper(Chars(MetadataGet(msg, "role", "user")))),
     content |-> MetadataGet(msg, "content", "")]

FullPrompt_WholeHistory(system_prompt, combined_history, query) ==
    [system_prompt |-> system_prompt,
     history_text |-> [i \in 1..Len(combined_history) |-> HistoryLine(combined_history[i])],
     query |-> query]

\* full_prompt: system prompt, the last turns as "ROLE: content", the query
FullPrompt(system_prompt, combined_history, query) ==
    [system_prompt |-> system_prompt,
     history_text |-> [i \in 1..Len(LastN(combined_history, HISTORY_WINDOW)) |->
                          HistoryLine(LastN(combined_history, HISTORY_WINDOW)[i])],
     query |-> query]

\* "ResourceExhausted" in error_str or "429" in error_str
IsRateLimit(error_str) ==
    \/ Contains(Chars("ResourceExhausted"), Chars(error_str))
    \/ Contains(Chars("429"), Chars(error_str))

APOLOGY ==
    "I'm currently experiencing high traffic and my thought matrix is recalibrating. Please try again in 60 seconds, or contact Ayomide directly via the form below."

CRITICAL == "I encountered a critical system error. Please contact Ayomide via email."

\* what the handler hands back: a response body, or an exception that left it
Respond(body) == [kind |-> "return", body |-> body]

Escapes(e) == [kind |-> "raise", error |-> e]

NoReturn == [kind |-> "none"]

ChatExcept_Reraise(request, e) == Escapes(e)

\* chat's outer `except Exception`
ChatExcept(request, e) ==
    Respond([response |-> CRITICAL, citations |-> <<>>,
             session_id |-> request.session_id])

\* chat's inner try around generate_content: what follows the call.
\* The rate-limit answer is returned at once, before the saves.
AfterGenerate_SavesApology(request, gen) ==
    IF ~gen.raised THEN [pc |-> "save", response_text |-> gen.value, ret |-> NoReturn]
    ELSE IF IsRateLimit(gen.error)
         THEN [pc |-> "save", response_text |-> APOLOGY, ret |-> NoReturn]
         ELSE [pc |-> "done", response_text |-> None, ret |-> ChatExcept(request, gen.error)]

AfterGenerate_SavesFailure(request, gen) ==
    IF ~gen.raised THEN [pc |-> "save", response_text |-> gen.value, ret |-> NoReturn]
    ELSE IF IsRateLimit(gen.error)
         THEN [pc |-> "done", response_text |-> APOLOGY,
               ret |-> Respond([response |-> APOLOGY, citations |-> <<>>,
                                session_id |-> request.session_id,
                                language |-> request.language])]
         ELSE [pc |-> "save", response_text |-> CRITICAL, ret |-> NoReturn]

AfterGenerate(request, gen) ==
    IF ~gen.raised THEN [pc |-> "save", response_text |-> gen.value, ret |-> NoReturn]
    ELSE IF IsRateLimit(gen.error)
         THEN [pc |-> "done", response_text |-> APOLOGY,
               ret |-> Respond([response |-> APOLOGY, citations |-> <<>>,
                                session_id |-> request.session_id,
                                language |-> request.language])]
         ELSE [pc |-> "done", response_text |-> None, ret |-> ChatExcept(request, gen.error)]

\* model.generate_content(full_prompt) and response.text
generate_content(outcome) ==
    IF outcome.ok THEN Return(outcome.text) ELSE Raise(outcome.error)

(***************************************************************************)
(* The streaming turn (POST /chat/stream).  chat_stream returns a          *)
(* StreamingResponse around the async generator                            *)
(* generate_streaming_response; the server then iterates the generator,    *)
(* which runs from one yield to the next each time it is resumed.          *)
(***************************************************************************)
\* raise HTTPException(status_code=500, detail=str(e))
HTTPException(status_code, detail) ==
    [kind |-> "http_exception", status_code |-> status_code, detail |-> detail]

\* StreamingResponse(generate_streaming_response(..), headers={.., "X-Citations": ..})
StreamingResponse(citations) ==
    [kind |-> "stream", media_type |-> "text/event-stream", x_citations |-> citations]

\* f"data: {json.dumps({'text': chunk.text})}\n\n"
TextEvent(text) == [data |-> [text |-> text]]

\* f"data: {json.dumps({'done': True})}\n\n"
DoneEvent == [data |-> [done |-> TRUE]]

\* where a response stream is open: the generator not started, running its
\* loop, or suspended at one of its two yields
ACK ==
    "Understood. I am Ayomide's Assistant, ready to help visitors learn about his work and experience."

\* one history turn as a message of the conversation
HistoryMessage(msg) ==
    [role |-> IF MetadataGet(msg, "role", None) = "user" THEN "user" ELSE "model",
     parts |-> <<MetadataGet(msg, "content", "")>>]

\* generate_streaming_response's messages: the system prompt and its
\* acknowledgement, history[-6:], the query
StreamMessages(query, system_prompt, history) ==
    <<[role |-> "user", parts |-> <<system_prompt>>],
      [role |-> "model", parts |-> <<ACK>>]>>
        \o [i \in 1..Len(LastN(history, HISTORY_WINDOW)) |->
               HistoryMessage(LastN(history, HISTORY_WINDOW)[i])]
        \o <<[role |-> "user", parts |-> <<query>>]>>

\* model.start_chat(history=messages[:-1]).send_message(query): what the
\* model is given, the history and then the query as the user's message
SendMessage(messages, query) ==
    Append(SubSeq(messages, 1, Len(messages) - 1), [role |-> "user", parts |-> <<query>>])

StreamOpen == {"stream_open", "stream_pull", "stream_yield", "stream_yield_done"}

StreamSuspended == {"stream_open", "stream_yield", "stream_yield_done"}

StreamOver == {"stream_end", "stream_failed", "stream_closed", "stream_error"}

(***************************************************************************)
(* Knowledge ingestion (maintain.py).  A row of the `documents` table is   *)
(* [content, metadata], metadata.source_id being the key upload_knowledge  *)
(* purges by; the table itself puts no constraint on it.                   *)
(***************************************************************************)
\* supabase.table('documents').delete().eq('metadata->>source_id', source_id)
RECURSIVE DeleteWhereSourceId(_, _)
DeleteWhereSourceId(rows, source_id) ==
    IF rows = <<>> THEN <<>>
    ELSE (IF Head(rows).metadata.source_id = source_id THEN <<>> ELSE <<Head(rows)>>)
         \o DeleteWhereSourceId(Tail(rows), source_id)

\* step 1 of upload_knowledge: the purge; a failure is printed and passed over
Purge(rows, source_id, ok) ==
    IF ok THEN DeleteWhereSourceId(rows, source_id) ELSE rows

\* get_embedding: the vector, None when genai.embed_content raises
get_embedding(ok) == IF ok THEN "vector" ELSE None

\* step 3 of upload_knowledge: the insert of the payload
Insert(rows, source_id, content, ok) ==
    IF ok THEN Append(rows, [content |-> content, metadata |-> [source_id |-> source_id]])
    ELSE rows

\* the rows stored under a source_id
DocsOf(rows, source_id) == SelectSeq(rows, LAMBDA r : r.metadata.source_id = source_id)

\* The sync processes: each webhook starts `python maintain.py sync` as a
\* process of its own.
Workers == {"w1", "w2"}

SourceIds == {"github_foo_bar", "github_baz"}

DocContents == {"C1", "C2"}

\* upload_knowledge calls started in one behaviour
MaxUploads == 3

NoUpload == [pc |-> "idle", source_id |-> "", content |-> "", vector |-> None]

(***************************************************************************)
(* The sync functions (maintain.py).  Each fetches a listing and calls     *)
(* upload_knowledge for its items, counting the calls that return True.    *)
(***************************************************************************)
\* what the three steps of one upload_knowledge call may do: the insert is
\* not attempted without a vector
UploadOutcomes ==
    {[purge |-> p, embed |-> TRUE, insert |-> i] : p \in BOOLEAN, i \in BOOLEAN}
        \cup {[purge |-> p, embed |-> FALSE, insert |-> FALSE] : p \in BOOLEAN}

upload_knowledge_AbortsOnPurgeFailure(rows, source_id, content, o) ==
    LET vector == get_embedding(o.embed)
    IN IF ~o.purge \/ vector = None
       THEN [rows |-> Purge(rows, source_id, o.purge), ok |-> FALSE]
       ELSE [rows |-> Insert(Purge(rows, source_id, o.purge), source_id, content, o.insert),
             ok |-> o.insert]

\* upload_knowledge as one call: the table it leaves and what it returns
upload_knowledge(rows, source_id, content, o) ==
    LET purged == Purge(rows, source_id, o.purge)
        vector == get_embedding(o.embed)
    IN IF vector = None
       THEN [rows |-> purged, ok |-> FALSE]
       ELSE [rows |-> Insert(purged, source_id, content, o.insert), ok |-> o.insert]

\* f"github_{name.lower().replace('-', '_')}"
github_source_id(name) ==
    Str(Chars("github_") \o ReplaceChar(lower(Chars(name)), 45, 95))

\* f"kaggle_{slug.replace('/', '_').lower()}"
kaggle_source_id(slug) ==
    Str(Chars("kaggle_") \o lower(ReplaceChar(Chars(slug), 47, 95)))

\* f"blog_{slug.replace('-', '_').lower()}"
blog_source_id(slug) ==
    Str(Chars("blog_") \o lower(ReplaceChar(Chars(slug), 45, 95)))

\* sync_all calls sync_github, sync_kaggle, sync_blog, in this order
SyncSources == <<"github", "kaggle", "blog">>

\* the key an item of a source is stored under
ItemSourceId(source, item) ==
    CASE source = "github" -> github_source_id(item.name)
      [] source = "kaggle" -> kaggle_source_id(item.slug)
      [] source = "blog" -> blog_source_id(item.slug)

\* sync_github skips the forks; the other two take every item
Skipped(source, item) == source = "github" /\ item.fork

\* the listings the three upstreams may return
GithubListing ==
    <<[name |-> "Foo-Bar", fork |-> FALSE],
      [name |-> "Forked-Lib", fork |-> TRUE],
      [name |-> "baz", fork |-> FALSE]>>

\* a listing with two repositories whose names differ in case and in - and _
GithubListingAlike ==
    <<[name |-> "Foo-Bar", fork |-> FALSE],
      [name |-> "foo_bar", fork |-> FALSE]>>

KaggleListing == <<[title |-> "Titanic EDA", slug |-> "allieniola/Titanic-EDA"]>>

BlogListing == <<[title |-> "Hello Rust", slug |-> "Hello-Rust"]>>

\* what the fetch of a source may come to: the request raises ("failed"),
\* sync_kaggle has no KAGGLE_KEY ("skipped"), the blog answer has no
\* publication ("empty") or does not parse ("unparsed"), or a listing
FetchOutcomes(source) ==
    CASE source = "github" ->
            {[kind |-> "failed"], [kind |-> "listing", items |-> GithubListing],
             [kind |-> "listing", items |-> GithubListingAlike]}
      [] source = "kaggle" ->
            {[kind |-> "skipped"], [kind |-> "failed"],
             [kind |-> "listing", items |-> KaggleListing]}
      [] source = "blog" ->
            {[kind |-> "failed"], [kind |-> "empty"], [kind |-> "unparsed"],
             [kind |-> "listing", items |-> BlogListing]}

sync_fetch_Propagates(source, outcome) ==
    IF outcome.kind = "listing" THEN [kind |-> "loop", items |-> outcome.items]
    ELSE IF outcome.kind = "failed" THEN [kind |-> "raise", items |-> <<>>]
    ELSE [kind |-> "return", items |-> <<>>]

\* the head of a sync function: it goes on to its loop with the listing,
\* or returns 0
sync_fetch(source, outcome) ==
    IF outcome.kind = "listing" THEN [kind |-> "loop", items |-> outcome.items]
    ELSE [kind |-> "return", items |-> <<>>]

\* if upload_knowledge(..): synced += 1
Count(synced, ok) == IF ok THEN synced + 1 ELSE synced

\* sum(results.values())
Total(results) == results["github"] + results["kaggle"] + results["blog"]

\* runs of `maintain.py sync` in one behaviour
MaxSyncRuns == 2

(***************************************************************************)
(* The event loop.  Every handler of main.py is an `async def`, so uvicorn *)
(* runs them all on the one thread of its event loop, which takes another  *)
(* handler only when the running one awaits or returns.                    *)
(***************************************************************************)
\* the requests that may be in flight at once
Tasks == {"t1", "t2"}

Interruptible_Threaded(pcv) == TRUE

\* Whether another handler may run while a handler stands at statement pcv:
\* only at an await, and chat (main.py:375-461) and the functions it calls,
\* save_to_session among them, have none.
Interruptible(pcv) == FALSE

\* the statements of save_to_session
SavePcs ==
    {"save_scan", "save_del", "save_create", "save_append", "save_touch",
     "save_trim", "save_trim_store", "save_return"}

\* the blocking provider calls of a chat turn
ExternalCallPcs == {"embed", "search", "generate"}

SaveArgs_AssistantFirst(k, request, response_text) ==
    IF k = 1 THEN [role |-> "assistant", content |-> response_text]
    ELSE [role |-> "user", content |-> request.query]

\* the arguments of the k-th save_to_session call of a turn:
\* ("user", request.query), then ("assistant", the response)
SaveArgs(k, request, response_text) ==
    IF k = 1 THEN [role |-> "user", content |-> request.query]
    ELSE [role |-> "assistant", content |-> response_text]

(***************************************************************************)
(* What a chat turn is given.                                              *)
(***************************************************************************)
Queries == {"what is charon", "  SUDO Tell me a Secret ", "Tell me about Rust"}

\* the default, a code with a directive, and a code the tables do not have
Languages == {"en", "fr", "xx"}

\* a client's conversation_history of seven turns, the last without a role
LongHistory ==
    <<[role |-> "user", content |-> "q1"], [role |-> "assistant", content |-> "a1"],
      [role |-> "user", content |-> "q2"], [role |-> "assistant", content |-> "a2"],
      [role |-> "user", content |-> "q3"], [role |-> "assistant", content |-> "a3"],
      [content |-> "q4"]>>

ClientHistories == {<<>>, LongHistory}

DocProject ==
    [content |-> "An app.",
     metadata |-> [type |-> "project", name |-> "My App",
                   url |-> "https://github.com/AAEO04/my-app"]]

DocBlog ==
    [content |-> "A post.",
     metadata |-> [type |-> "blog", name |-> "Post", url |-> ""]]

\* a project document stored without a name
DocUnnamed ==
    [content |-> "A tool.",
     metadata |-> [type |-> "project", url |-> "https://github.com/AAEO04/tool"]]

\* what match_documents may return
SearchResults == {<<>>, <<DocProject, DocBlog, DocUnnamed>>}

ProviderError == "500 Internal error"

EmbedOutcomes == {[ok |-> TRUE], [ok |-> FALSE, error |-> ProviderError]}

SearchOutcomes ==
    {[ok |-> TRUE, data |-> d] : d \in SearchResults}
        \cup {[ok |-> FALSE, error |-> ProviderError]}

GenErrors == {"ResourceExhausted: quota", "429 Too Many Requests", ProviderError}

GenOutcomes ==
    {[ok |-> TRUE, text |-> "generated answer"]}
        \cup {[ok |-> FALSE, error |-> e] : e \in GenErrors}

\* what the requests in flight on the event loop ask: an easter egg and a
\* question, on any session or none
LoopQueries == {"what is charon", "Tell me about Rust"}

LoopKinds == {"chat", "get_session"}

\* the texts of the chunks the model streams; a chunk's text may be empty
ChunkTexts == {"", "Hel", "lo"}

\* the chunks of one streamed response
MaxChunks == 2

\* chat.send_message(query, stream=True): the response iterator, or an error
SendOutcomes == {[ok |-> TRUE]} \cup {[ok |-> FALSE, error |-> e] : e \in GenErrors}

\* next(response) after the chunks got so far: a chunk, the end, or an error
PullOutcomes(got) ==
    (IF Len(got) < MaxChunks
     THEN {[kind |-> "chunk", text |-> t] : t \in ChunkTexts}
     ELSE {})
        \cup {[kind |-> "stop"]}
        \cup {[kind |-> "raise", error |-> e] : e \in GenErrors}

(***************************************************************************)
(* State.  chat is an `async def` without an await: the event loop runs a  *)
(* turn from its first statement to its return before it starts another    *)
(* handler, so one turn is in progress at a time (pc).                     *)
(***************************************************************************)
VARIABLES
    conversation_memory,  \* the session store
    now,                  \* the last reading of datetime.utcnow()
    appended,             \* history: the number of turns ever appended to an id
    evicted,              \* history: the ids the last step evicted, in order
    reply,                \* what the last session endpoint called handed back
    pc,                   \* where the chat turn in progress stands, or "idle"
    request,              \* its ChatRequest
    loc,                  \* its local variables
    ret,                  \* what it handed back
    calls,                \* history: the provider calls it made, in order
    mem0,                 \* history: the session store when it started
    documents,            \* the rows of the `documents` table, in insertion order
    upl,                  \* each sync process's upload_knowledge call in progress
    uploads,              \* history: the number of upload_knowledge calls started
    overlapped,           \* history: two upload_knowledge calls ran at once
    last,                 \* history: per source_id, whether its last finished
                          \* call reported success, that call's content, the
                          \* content of the last successful call before it and
                          \* the number of successful calls
    events,               \* the events the streaming generator has yielded
    pulled,               \* the chunks it has taken from the model's response
    disconnected,         \* the consumer of the stream has disconnected
    atDisconnect,         \* history: Len(pulled) and Len(events) at that moment
    sync,                 \* the `maintain.py sync` process: where sync_all stands
    task                  \* the requests in flight on the event loop

storeVars == <<conversation_memory, now, appended, evicted, reply>>

chatVars == <<pc, request, loc, ret, calls, mem0>>

ingestVars == <<documents, upl, uploads, overlapped, last>>

streamVars == <<events, pulled, disconnected, atDisconnect>>

syncVars == <<sync>>

loopVars == <<task>>

vars == <<conversation_memory, now, appended, evicted, reply,
          pc, request, loc, ret, calls, mem0,
          documents, upl, uploads, overlapped, last,
          events, pulled, disconnected, atDisconnect, sync, task>>

NoRequest ==
    [query |-> "", conversation_history |-> <<>>, session_id |-> NoSession,
     language |-> "en"]

NoPrompt == [context_text |-> <<>>, language_instruction |-> <<>>]

NoLocals ==
    [combined_history |-> <<>>, context_docs |-> <<>>, system_prompt |-> NoPrompt,
     citations |-> <<>>,
     full_prompt |-> [system_prompt |-> NoPrompt, history_text |-> <<>>, query |-> ""],
     messages |-> <<>>,
     response_text |-> None]

NoReply == [endpoint |-> "none"]

NoDisconnect == [pulled |-> 0, events |-> 0]

SourceNames == {"github", "kaggle", "blog"}

\* history of the last upload_knowledge call of the sync process: its key,
\* what its steps did, what it returned, the table before it, and the
\* caller's synced before it and after it
NoUp ==
    [called |-> FALSE, source_id |-> "", outcome |-> [purge |-> TRUE, embed |-> TRUE,
                                                     insert |-> TRUE],
     ok |-> FALSE, before |-> <<>>, synced |-> 0, counted |-> 0]

\* The sync process between two runs.  source, listing, i and synced are
\* where sync_all and the sync function it is in stand; results is
\* sync_all's dict, of the sync functions that have returned; fetch, listed, attempts and up are history: how each
\* fetch ended, what it listed, the upload_knowledge calls made for each
\* source and the last of them.
SyncIdle(runs) ==
    [pc |-> "idle", runs |-> runs, source |-> 1, listing |-> <<>>, i |-> 1,
     synced |-> 0,
     results |-> [x \in SourceNames |-> 0],
     returned |-> {},
     total |-> 0,
     fetch |-> [x \in SourceNames |-> "none"],
     listed |-> [x \in SourceNames |-> <<>>],
     attempts |-> [x \in SourceNames |-> 0],
     up |-> NoUp]

NoSync == SyncIdle(0)

\* A slot of the event loop with no request in it.  k, oldest and slice are
\* save_to_session's position and locals; at_call, mem0, appends and error
\* are history: the store, the clock and the turn's number when the save in
\* progress was called, the store when the handler started, the appends it
\* made and the exception a statement of save_to_session raised.
NoTask ==
    [pc |-> "idle", kind |-> "none", request |-> NoRequest, response_text |-> None,
     k |-> 0, oldest |-> NoSession, slice |-> <<>>, ret |-> NoReturn,
     at_call |-> [mem |-> <<>>, t |-> 0, n |-> 0], mem0 |-> <<>>, appends |-> 0,
     error |-> None]

Init ==
    /\ conversation_memory = <<>>
    /\ now = 0
    /\ appended = [s \in SessionIds |-> 0]
    /\ evicted = <<>>
    /\ pc = "idle"
    /\ request = NoRequest
    /\ loc = NoLocals
    /\ ret = NoReturn
    /\ calls = <<>>
    /\ mem0 = <<>>
    /\ documents = <<>>
    /\ upl = [w \in Workers |-> NoUpload]
    /\ uploads = 0
    /\ overlapped = FALSE
    /\ last = [x \in SourceIds |->
                  [ok |-> FALSE, content |-> None, before |-> None, successes |-> 0]]
    /\ reply = NoReply
    /\ events = <<>>
    /\ pulled = <<>>
    /\ disconnected = FALSE
    /\ atDisconnect = NoDisconnect
    /\ sync = NoSync
    /\ task = [t \in Tasks |-> NoTask]

\* The clock does not run backwards; two readings may be equal.
Ticks == {0, 1}

TotalAppended == SumOver(appended, SessionIds)

(***************************************************************************)
(* The session store's operations, called one at a time.                   *)
(***************************************************************************)
SaveToSession(sid, role, content) ==
    \E d \in Ticks :
        /\ pc = "idle"
        /\ sid # NoSession
        /\ TotalAppended < MaxAppends
        /\ now' = now + d
        /\ conversation_memory' =
               save_to_session(conversation_memory, sid,
                               Turn(role, content, now', appended[sid] + 1), now')
        /\ appended' = [appended EXCEPT ![sid] = @ + 1]
        /\ evicted' = Evictions(conversation_memory, sid)
        /\ reply' = NoReply
        /\ UNCHANGED chatVars
        /\ UNCHANGED ingestVars
    /\ UNCHANGED streamVars
    /\ UNCHANGED syncVars
    /\ UNCHANGED loopVars

\* save_to_session with a falsy id returns at once
SaveToNoSession ==
    /\ pc = "idle"
    /\ conversation_memory' = save_to_session(conversation_memory, NoSession,
                                              Turn("user", "hello", now, 0), now)
    /\ evicted' = Evictions(conversation_memory, NoSession)
    /\ reply' = NoReply
    /\ UNCHANGED <<now, appended>>
    /\ UNCHANGED chatVars
    /\ UNCHANGED ingestVars
    /\ UNCHANGED streamVars
    /\ UNCHANGED syncVars
    /\ UNCHANGED loopVars

\* the DELETE /session/{session_id} handler
ClearSession(sid) ==
    /\ pc = "idle"
    /\ LET r == delete_session(conversation_memory, sid)
       IN /\ conversation_memory' = r.mem
          /\ reply' = [endpoint |-> "delete_session", session_id |-> sid, body |-> r.body]
    /\ evicted' = <<>>
    /\ UNCHANGED <<now, appended>>
    /\ UNCHANGED chatVars
    /\ UNCHANGED ingestVars
    /\ UNCHANGED streamVars
    /\ UNCHANGED syncVars
    /\ UNCHANGED loopVars

\* the GET /session/{session_id} handler
GetSession(sid) ==
    /\ pc = "idle"
    /\ LET r == get_session(conversation_memory, sid)
       IN /\ conversation_memory' = r.mem
          /\ reply' = [endpoint |-> "get_session", session_id |-> sid, body |-> r.body]
    /\ evicted' = <<>>
    /\ UNCHANGED <<now, appended>>
    /\ UNCHANGED chatVars
    /\ UNCHANGED ingestVars
    /\ UNCHANGED streamVars
    /\ UNCHANGED syncVars
    /\ UNCHANGED loopVars

NextStore ==
    \/ \E sid \in SessionIds, role \in Roles, content \in Contents :
           SaveToSession(sid, role, content)
    \/ SaveToNoSession
    \/ \E sid \in SessionIds \cup {NoSession} : ClearSession(sid)

SpecStore == Init /\ [][NextStore]_vars

\* The session endpoints, between turns appended by one party.
NextSession ==
    \/ \E sid \in SessionIds, content \in Contents : SaveToSession(sid, "user", content)
    \/ \E sid \in SessionIds \cup {NoSession} : ClearSession(sid)
    \/ \E sid \in SessionIds \cup {NoSession} : GetSession(sid)

SpecSession == Init /\ [][NextSession]_vars

(***************************************************************************)
(* The chat turn (POST /chat), statement by statement.                     *)
(***************************************************************************)
ChatRequest(query, sid, language, history) ==
    /\ pc = "idle"
    /\ sid # NoSession => TotalAppended + 2 <= MaxAppends
    /\ pc' = "easter_egg"
    /\ request' = [query |-> query, conversation_history |-> history,
                   session_id |-> sid, language |-> language]
    /\ loc' = NoLocals
    /\ ret' = NoReturn
    /\ calls' = <<>>
    /\ mem0' = conversation_memory
    /\ evicted' = <<>>
    /\ reply' = NoReply
    /\ UNCHANGED <<conversation_memory, now, appended>>
    /\ UNCHANGED ingestVars
    /\ UNCHANGED streamVars
    /\ UNCHANGED syncVars
    /\ UNCHANGED loopVars

\* if request.session_id: save_to_session(.., "user", query);
\*                        save_to_session(.., "assistant", response)
SaveTurn(sid, query, response) ==
    IF sid = NoSession
    THEN /\ evicted' = <<>>
         /\ UNCHANGED <<conversation_memory, now, appended>>
    ELSE \E d1 \in Ticks, d2 \in Ticks :
            LET t1 == now + d1
                t2 == t1 + d2
                m1 == save_to_session(conversation_memory, sid,
                                      Turn("user", query, t1, appended[sid] + 1), t1)
                m2 == save_to_session(m1, sid,
                                      Turn("assistant", response, t2, appended[sid] + 2), t2)
            IN /\ conversation_memory' = m2
               /\ now' = t2
               /\ appended' = [appended EXCEPT ![sid] = @ + 2]
               /\ evicted' = Evictions(conversation_memory, sid) \o Evictions(m1, sid)

\* easter_egg = check_easter_egg(request.query), and what follows it up to
\* the first provider call
ChatEasterEgg ==
    /\ pc = "easter_egg"
    /\ LET easter_egg == check_easter_egg(request.query)
           session_history == get_session_history(conversation_memory, request.session_id)
       IN IF Truthy(easter_egg)
          THEN /\ SaveTurn(request.session_id, request.query, easter_egg)
               /\ ret' = Respond([response |-> easter_egg, citations |-> <<>>,
                                  easter_egg |-> TRUE,
                                  session_id |-> request.session_id])
               /\ pc' = "done"
               /\ UNCHANGED loc
          ELSE /\ loc' = [loc EXCEPT !.combined_history =
                              IF session_history # <<>> THEN session_history
                              ELSE request.conversation_history]
               /\ pc' = "embed"
               /\ UNCHANGED <<conversation_memory, now, appended, evicted, ret>>
    /\ UNCHANGED <<request, calls, mem0>>
    /\ UNCHANGED reply
    /\ UNCHANGED ingestVars
    /\ UNCHANGED streamVars
    /\ UNCHANGED syncVars
    /\ UNCHANGED loopVars

\* 1. query_embedding = get_query_embedding(request.query)
ChatEmbed ==
    /\ pc = "embed"
    /\ \E outcome \in EmbedOutcomes :
          LET r == get_query_embedding(outcome)
          IN /\ calls' = Append(calls, [fn |-> "embed", ok |-> outcome.ok, error |-> None])
             /\ IF r.raised
                THEN /\ ret' = ChatExcept(request, r.error)
                     /\ pc' = "done"
                ELSE /\ ret' = ret
                     /\ pc' = "search"
    /\ UNCHANGED <<conversation_memory, now, appended, evicted, request, loc, mem0>>
    /\ UNCHANGED reply
    /\ UNCHANGED ingestVars
    /\ UNCHANGED streamVars
    /\ UNCHANGED syncVars
    /\ UNCHANGED loopVars

\* 2. context_docs = search_knowledge_base(query_embedding)
ChatSearch ==
    /\ pc = "search"
    /\ \E outcome \in SearchOutcomes :
          LET r == search_knowledge_base(outcome)
          IN /\ calls' = Append(calls, [fn |-> "search", ok |-> outcome.ok, error |-> None])
             /\ IF r.raised
                THEN /\ ret' = ChatExcept(request, r.error)
                     /\ pc' = "done"
                     /\ loc' = loc
                ELSE /\ ret' = ret
                     /\ pc' = "build"
                     /\ loc' = [loc EXCEPT !.context_docs = r.value]
    /\ UNCHANGED <<conversation_memory, now, appended, evicted, request, mem0>>
    /\ UNCHANGED reply
    /\ UNCHANGED ingestVars
    /\ UNCHANGED streamVars
    /\ UNCHANGED syncVars
    /\ UNCHANGED loopVars

\* 3. system_prompt, citations = build_system_prompt(..); full_prompt
ChatBuild ==
    /\ pc = "build"
    /\ LET built == build_system_prompt(loc.context_docs,
                                        IF Truthy(request.language)
                                        THEN request.language ELSE "en")
       IN loc' = [loc EXCEPT !.system_prompt = built.system_prompt,
                             !.citations = built.citations,
                             !.full_prompt = FullPrompt(built.system_prompt,
                                                        loc.combined_history,
                                                        request.query)]
    /\ pc' = "generate"
    /\ UNCHANGED <<conversation_memory, now, appended, evicted, request, ret, calls, mem0>>
    /\ UNCHANGED reply
    /\ UNCHANGED ingestVars
    /\ UNCHANGED streamVars
    /\ UNCHANGED syncVars
    /\ UNCHANGED loopVars

\* 4. response = model.generate_content(full_prompt), in its try/except
ChatGenerate ==
    /\ pc = "generate"
    /\ \E outcome \in GenOutcomes :
          LET after == AfterGenerate(request, generate_content(outcome))
          IN /\ calls' = Append(calls, [fn |-> "generate", ok |-> outcome.ok,
                                        error |-> IF outcome.ok THEN None
                                                  ELSE outcome.error])
             /\ pc' = after.pc
             /\ ret' = after.ret
             /\ loc' = [loc EXCEPT !.response_text = after.response_text]
    /\ UNCHANGED <<conversation_memory, now, appended, evicted, request, mem0>>
    /\ UNCHANGED reply
    /\ UNCHANGED ingestVars
    /\ UNCHANGED streamVars
    /\ UNCHANGED syncVars
    /\ UNCHANGED loopVars

\* the saves to session memory, and the return
ChatSave ==
    /\ pc = "save"
    /\ SaveTurn(request.session_id, request.query, loc.response_text)
    /\ ret' = Respond([response |-> loc.response_text, citations |-> loc.citations,
                       session_id |-> request.session_id,
                       language |-> request.language])
    /\ pc' = "done"
    /\ UNCHANGED <<request, loc, calls, mem0>>
    /\ UNCHANGED reply
    /\ UNCHANGED ingestVars
    /\ UNCHANGED streamVars
    /\ UNCHANGED syncVars
    /\ UNCHANGED loopVars

\* the response is sent; the event loop takes the next request
ChatDone ==
    /\ pc = "done"
    /\ pc' = "idle"
    /\ request' = NoRequest
    /\ loc' = NoLocals
    /\ ret' = NoReturn
    /\ calls' = <<>>
    /\ mem0' = <<>>
    /\ evicted' = <<>>
    /\ UNCHANGED <<conversation_memory, now, appended>>
    /\ UNCHANGED reply
    /\ UNCHANGED ingestVars
    /\ UNCHANGED streamVars
    /\ UNCHANGED syncVars
    /\ UNCHANGED loopVars

NextChat ==
    \/ \E query \in Queries, sid \in SessionIds \cup {NoSession},
          language \in Languages, history \in ClientHistories :
           ChatRequest(query, sid, language, history)
    \/ ChatEasterEgg
    \/ ChatEmbed
    \/ ChatSearch
    \/ ChatBuild
    \/ ChatGenerate
    \/ ChatSave
    \/ ChatDone
    \/ \E sid \in SessionIds : ClearSession(sid)

SpecChat == Init /\ [][NextChat]_vars

(***************************************************************************)
(* The streaming turn, statement by statement.  chat_stream reads neither  *)
(* request.session_id nor request.language, and touches no session.        *)
(***************************************************************************)
ChatStreamRequest(query, language, history) ==
    /\ pc = "idle"
    /\ pc' = "stream_embed"
    /\ request' = [query |-> query, conversation_history |-> history,
                   session_id |-> NoSession, language |-> language]
    /\ loc' = NoLocals
    /\ ret' = NoReturn
    /\ calls' = <<>>
    /\ events' = <<>>
    /\ pulled' = <<>>
    /\ disconnected' = FALSE
    /\ atDisconnect' = NoDisconnect
    /\ UNCHANGED mem0
    /\ UNCHANGED storeVars
    /\ UNCHANGED ingestVars
    /\ UNCHANGED syncVars
    /\ UNCHANGED loopVars

\* 1. query_embedding = get_query_embedding(request.query)
StreamEmbed ==
    /\ pc = "stream_embed"
    /\ \E outcome \in EmbedOutcomes :
          LET r == get_query_embedding(outcome)
          IN /\ calls' = Append(calls, [fn |-> "embed", ok |-> outcome.ok, error |-> None])
             /\ IF r.raised
                THEN /\ ret' = HTTPException(500, r.error)
                     /\ pc' = "stream_error"
                ELSE /\ ret' = ret
                     /\ pc' = "stream_search"
    /\ UNCHANGED <<request, loc, mem0>>
    /\ UNCHANGED storeVars
    /\ UNCHANGED ingestVars
    /\ UNCHANGED streamVars
    /\ UNCHANGED syncVars
    /\ UNCHANGED loopVars

\* 2. context_docs = search_knowledge_base(query_embedding)
StreamSearch ==
    /\ pc = "stream_search"
    /\ \E outcome \in SearchOutcomes :
          LET r == search_knowledge_base(outcome)
          IN /\ calls' = Append(calls, [fn |-> "search", ok |-> outcome.ok, error |-> None])
             /\ IF r.raised
                THEN /\ ret' = HTTPException(500, r.error)
                     /\ pc' = "stream_error"
                     /\ loc' = loc
                ELSE /\ ret' = ret
                     /\ pc' = "stream_build"
                     /\ loc' = [loc EXCEPT !.context_docs = r.value]
    /\ UNCHANGED <<request, mem0>>
    /\ UNCHANGED storeVars
    /\ UNCHANGED ingestVars
    /\ UNCHANGED streamVars
    /\ UNCHANGED syncVars
    /\ UNCHANGED loopVars

\* 3. build_system_prompt(context_docs), with its default language;
\* 4. return StreamingResponse(generate_streaming_response(..), ..)
StreamBuild ==
    /\ pc = "stream_build"
    /\ LET built == build_system_prompt(loc.context_docs, "en")
       IN /\ loc' = [loc EXCEPT !.system_prompt = built.system_prompt,
                                !.citations = built.citations]
          /\ ret' = StreamingResponse(built.citations)
    /\ pc' = "stream_open"
    /\ UNCHANGED <<request, calls, mem0>>
    /\ UNCHANGED storeVars
    /\ UNCHANGED ingestVars
    /\ UNCHANGED streamVars
    /\ UNCHANGED syncVars
    /\ UNCHANGED loopVars

\* The server asks the generator for its first event: the generator builds
\* its messages and calls chat.send_message(query, stream=True).  Nothing
\* in the generator catches what the call raises.
GenStart ==
    /\ pc = "stream_open"
    /\ ~disconnected
    /\ \E outcome \in SendOutcomes :
          /\ calls' = Append(calls, [fn |-> "generate", ok |-> outcome.ok,
                                     error |-> IF outcome.ok THEN None
                                               ELSE outcome.error])
          /\ pc' = IF outcome.ok THEN "stream_pull" ELSE "stream_failed"
    /\ loc' = [loc EXCEPT !.messages =
                   SendMessage(StreamMessages(request.query, loc.system_prompt,
                                              request.conversation_history),
                               request.query)]
    /\ UNCHANGED <<request, ret, mem0>>
    /\ UNCHANGED storeVars
    /\ UNCHANGED ingestVars
    /\ UNCHANGED streamVars
    /\ UNCHANGED syncVars
    /\ UNCHANGED loopVars

\* for chunk in response: if chunk.text: yield ..   and, after the loop,
\* yield the done event.  The loop is synchronous: it goes on to the next
\* chunk without a suspension when a chunk's text is empty.
GenPull ==
    /\ pc = "stream_pull"
    /\ \E o \in PullOutcomes(pulled) :
          CASE o.kind = "chunk" ->
                  /\ pulled' = Append(pulled, o.text)
                  /\ events' = IF o.text # "" THEN Append(events, TextEvent(o.text))
                               ELSE events
                  /\ pc' = IF o.text # "" THEN "stream_yield" ELSE "stream_pull"
                  /\ calls' = calls
            [] o.kind = "stop" ->
                  /\ pulled' = pulled
                  /\ events' = Append(events, DoneEvent)
                  /\ pc' = "stream_yield_done"
                  /\ calls' = calls
            [] o.kind = "raise" ->
                  /\ pulled' = pulled
                  /\ events' = events
                  /\ pc' = "stream_failed"
                  /\ calls' = Append(calls, [fn |-> "generate", ok |-> FALSE,
                                             error |-> o.error])
    /\ UNCHANGED <<request, loc, ret, mem0, disconnected, atDisconnect>>
    /\ UNCHANGED storeVars
    /\ UNCHANGED ingestVars
    /\ UNCHANGED syncVars
    /\ UNCHANGED loopVars

\* The server has sent the event and asks for the next: the generator
\* resumes after its yield.  A server that knows of the disconnection does
\* not ask.
GenResume ==
    /\ pc \in {"stream_yield", "stream_yield_done"}
    /\ ~disconnected
    /\ pc' = IF pc = "stream_yield" THEN "stream_pull" ELSE "stream_end"
    /\ UNCHANGED <<request, loc, ret, calls, mem0>>
    /\ UNCHANGED storeVars
    /\ UNCHANGED ingestVars
    /\ UNCHANGED streamVars
    /\ UNCHANGED syncVars
    /\ UNCHANGED loopVars

\* The consumer disconnects, at any moment of an open stream.
Disconnect ==
    /\ pc \in StreamOpen
    /\ ~disconnected
    /\ disconnected' = TRUE
    /\ atDisconnect' = [pulled |-> Len(pulled), events |-> Len(events)]
    /\ UNCHANGED <<events, pulled>>
    /\ UNCHANGED chatVars
    /\ UNCHANGED storeVars
    /\ UNCHANGED ingestVars
    /\ UNCHANGED syncVars
    /\ UNCHANGED loopVars

\* The server drops the response of a consumer that left: the generator,
\* suspended at a yield or not yet started, is closed where it stands.
GenClose ==
    /\ pc \in StreamSuspended
    /\ disconnected
    /\ pc' = "stream_closed"
    /\ UNCHANGED <<request, loc, ret, calls, mem0>>
    /\ UNCHANGED storeVars
    /\ UNCHANGED ingestVars
    /\ UNCHANGED streamVars
    /\ UNCHANGED syncVars
    /\ UNCHANGED loopVars

\* the response is over; the event loop takes the next request
StreamDone ==
    /\ pc \in StreamOver
    /\ pc' = "idle"
    /\ request' = NoRequest
    /\ loc' = NoLocals
    /\ ret' = NoReturn
    /\ calls' = <<>>
    /\ events' = <<>>
    /\ pulled' = <<>>
    /\ disconnected' = FALSE
    /\ atDisconnect' = NoDisconnect
    /\ UNCHANGED mem0
    /\ UNCHANGED storeVars
    /\ UNCHANGED ingestVars
    /\ UNCHANGED syncVars
    /\ UNCHANGED loopVars

NextStream ==
    \/ \E query \in Queries, language \in Languages, history \in ClientHistories :
           ChatStreamRequest(query, language, history)
    \/ StreamEmbed
    \/ StreamSearch
    \/ StreamBuild
    \/ GenStart
    \/ GenPull
    \/ GenResume
    \/ Disconnect
    \/ GenClose
    \/ StreamDone

SpecStream == Init /\ [][NextStream]_vars

(***************************************************************************)
(* upload_knowledge(source_id, content, metadata), step by step, in each   *)
(* sync process.                                                           *)
(***************************************************************************)
Finished(source_id, content, ok) ==
    last' = [last EXCEPT ![source_id] =
                [ok |-> ok, content |-> content,
                 before |-> IF @.ok THEN @.content ELSE @.before,
                 successes |-> @.successes + (IF ok THEN 1 ELSE 0)]]

UploadStart(w, source_id, content) ==
    /\ upl[w].pc = "idle"
    /\ uploads < MaxUploads
    /\ uploads' = uploads + 1
    /\ upl' = [upl EXCEPT ![w] = [pc |-> "purge", source_id |-> source_id,
                                  content |-> content, vector |-> None]]
    /\ overlapped' = (overlapped \/ \E v \in Workers \ {w} : upl[v].pc # "idle")
    /\ UNCHANGED <<documents, last>>
    /\ UNCHANGED storeVars
    /\ UNCHANGED chatVars
    /\ UNCHANGED streamVars
    /\ UNCHANGED syncVars
    /\ UNCHANGED loopVars

\* 1. Purge old data to prevent duplicates
UploadPurge(w) ==
    /\ upl[w].pc = "purge"
    /\ \E ok \in BOOLEAN : documents' = Purge(documents, upl[w].source_id, ok)
    /\ upl' = [upl EXCEPT ![w].pc = "embed"]
    /\ UNCHANGED <<uploads, overlapped, last>>
    /\ UNCHANGED storeVars
    /\ UNCHANGED chatVars
    /\ UNCHANGED streamVars
    /\ UNCHANGED syncVars
    /\ UNCHANGED loopVars

\* 2. Generate Vector; return False without one
UploadEmbed(w) ==
    /\ upl[w].pc = "embed"
    /\ \E ok \in BOOLEAN :
          LET vector == get_embedding(ok)
          IN IF vector = None
             THEN /\ upl' = [upl EXCEPT ![w] = NoUpload]
                  /\ Finished(upl[w].source_id, upl[w].content, FALSE)
             ELSE /\ upl' = [upl EXCEPT ![w].pc = "insert", ![w].vector = vector]
                  /\ last' = last
    /\ UNCHANGED <<documents, uploads, overlapped>>
    /\ UNCHANGED storeVars
    /\ UNCHANGED chatVars
    /\ UNCHANGED streamVars
    /\ UNCHANGED syncVars
    /\ UNCHANGED loopVars

\* 3. Insert New Data; return True, or False when the insert raises
UploadInsert(w) ==
    /\ upl[w].pc = "insert"
    /\ \E ok \in BOOLEAN :
          /\ documents' = Insert(documents, upl[w].source_id, upl[w].content, ok)
          /\ Finished(upl[w].source_id, upl[w].content, ok)
    /\ upl' = [upl EXCEPT ![w] = NoUpload]
    /\ UNCHANGED <<uploads, overlapped>>
    /\ UNCHANGED storeVars
    /\ UNCHANGED chatVars
    /\ UNCHANGED streamVars
    /\ UNCHANGED syncVars
    /\ UNCHANGED loopVars

NextIngest ==
    \/ \E w \in Workers, source_id \in SourceIds, content \in DocContents :
           UploadStart(w, source_id, content)
    \/ \E w \in Workers : UploadPurge(w)
    \/ \E w \in Workers : UploadEmbed(w)
    \/ \E w \in Workers : UploadInsert(w)

SpecIngest == Init /\ [][NextIngest]_vars

(***************************************************************************)
(* `python maintain.py sync`: sync_all, and the sync function it is in,    *)
(* statement by statement; upload_knowledge is one step of the process.    *)
(***************************************************************************)
SyncFrame ==
    /\ UNCHANGED <<upl, uploads, overlapped, last>>
    /\ UNCHANGED storeVars
    /\ UNCHANGED chatVars
    /\ UNCHANGED streamVars
    /\ UNCHANGED loopVars

\* a sync function returns value: sync_all goes on to the next one
Returned(st, source, value) ==
    [st EXCEPT !.results[source] = value,
               !.returned = @ \cup {source},
               !.pc = IF st.source < Len(SyncSources) THEN "fetch" ELSE "summary",
               !.source = IF st.source < Len(SyncSources) THEN @ + 1 ELSE @,
               !.listing = <<>>, !.i = 1, !.synced = 0]

\* the content built for an item
ItemContent(source, item) ==
    IF source = "github" THEN <<"Project", item.name>>
    ELSE IF source = "kaggle" THEN <<"Kaggle Notebook", item.title>>
    ELSE <<"Blog Post", item.title>>

SyncAllStart ==
    /\ sync.pc = "idle"
    /\ sync.runs < MaxSyncRuns
    /\ sync' = [SyncIdle(sync.runs + 1) EXCEPT !.pc = "fetch"]
    /\ UNCHANGED documents
    /\ SyncFrame

\* the head of sync_github, sync_kaggle or sync_blog
SyncFetch ==
    /\ sync.pc = "fetch"
    /\ LET source == SyncSources[sync.source]
       IN \E outcome \in FetchOutcomes(source) :
             LET f == sync_fetch(source, outcome)
                 st == [sync EXCEPT !.fetch[source] = outcome.kind]
             IN sync' =
                  CASE f.kind = "loop" ->
                          [st EXCEPT !.pc = "loop", !.listing = f.items, !.i = 1,
                                     !.synced = 0, !.listed[source] = f.items]
                    [] f.kind = "return" -> Returned(st, source, 0)
                    [] f.kind = "raise" -> [st EXCEPT !.pc = "crashed"]
    /\ UNCHANGED documents
    /\ SyncFrame

\* one turn of the loop over the listing
SyncItem ==
    /\ sync.pc = "loop"
    /\ sync.i <= Len(sync.listing)
    /\ LET source == SyncSources[sync.source]
           item == sync.listing[sync.i]
       IN IF Skipped(source, item)
          THEN /\ sync' = [sync EXCEPT !.i = @ + 1]
               /\ UNCHANGED documents
          ELSE \E o \in UploadOutcomes :
                  LET source_id == ItemSourceId(source, item)
                      r == upload_knowledge(documents, source_id,
                                            ItemContent(source, item), o)
                  IN /\ documents' = r.rows
                     /\ sync' = [sync EXCEPT
                                   !.i = @ + 1,
                                   !.synced = Count(@, r.ok),
                                   !.attempts[source] = @ + 1,
                                   !.up = [called |-> TRUE, source_id |-> source_id,
                                           outcome |-> o, ok |-> r.ok,
                                           before |-> documents,
                                           synced |-> sync.synced,
                                           counted |-> Count(sync.synced, r.ok)]]
    /\ SyncFrame

\* the loop is over: print and return synced
SyncReturn ==
    /\ sync.pc = "loop"
    /\ sync.i > Len(sync.listing)
    /\ sync' = Returned(sync, SyncSources[sync.source], sync.synced)
    /\ UNCHANGED documents
    /\ SyncFrame

\* sync_all prints its summary, with the total, and returns results
SyncSummary ==
    /\ sync.pc = "summary"
    /\ sync' = [sync EXCEPT !.pc = "done", !.total = Total(sync.results)]
    /\ UNCHANGED documents
    /\ SyncFrame

\* the process exits
SyncExit ==
    /\ sync.pc \in {"done", "crashed"}
    /\ sync' = SyncIdle(sync.runs)
    /\ UNCHANGED documents
    /\ SyncFrame

NextSync ==
    \/ SyncAllStart
    \/ SyncFetch
    \/ SyncItem
    \/ SyncReturn
    \/ SyncSummary
    \/ SyncExit

SpecSync == Init /\ [][NextSync]_vars

\* the turns of the two modes, taken together, are on no session
TurnSessionIds == {NoSession}

\* the two modes of a turn, one request at a time
NextTurns ==
    \/ \E query \in Queries, sid \in TurnSessionIds,
          language \in Languages, history \in ClientHistories :
           ChatRequest(query, sid, language, history)
    \/ ChatEasterEgg
    \/ ChatEmbed
    \/ ChatSearch
    \/ ChatBuild
    \/ ChatGenerate
    \/ ChatSave
    \/ ChatDone
    \/ NextStream

SpecTurns == Init /\ [][NextTurns]_vars

(***************************************************************************)
(* Requests in flight on the event loop: POST /chat and GET /session/{id}, *)
(* statement by statement, save_to_session included.  A request that has   *)
(* arrived is queued until the loop takes it.                              *)
(***************************************************************************)
LoopFrame ==
    /\ UNCHANGED reply
    /\ UNCHANGED chatVars
    /\ UNCHANGED ingestVars
    /\ UNCHANGED streamVars
    /\ UNCHANGED syncVars

\* The loop's thread is free for t: no other handler stands inside its body,
\* unless at a statement that gives the thread up.
Scheduled(t) ==
    \A u \in Tasks \ {t} :
        task[u].pc \in {"idle", "queued"} \/ Interruptible(task[u].pc)

\* the appends the chat turns in flight may still make
Reserved ==
    2 * Cardinality({u \in Tasks : /\ task[u].pc # "idle"
                                   /\ task[u].kind = "chat"
                                   /\ task[u].request.session_id # NoSession})

\* an exception raised inside chat's body reaches its outer `except Exception`
LoopRaise(t, e) ==
    [task[t] EXCEPT !.pc = "return", !.ret = ChatExcept(task[t].request, e), !.error = e]

\* a client sends a request
Arrive(t, kind, query, sid) ==
    /\ task[t].pc = "idle"
    /\ kind = "get_session" => sid # NoSession
    /\ (kind = "chat" /\ sid # NoSession) => TotalAppended + Reserved + 2 <= MaxAppends
    /\ task' = [task EXCEPT ![t] =
                   [NoTask EXCEPT !.pc = "queued", !.kind = kind,
                                  !.request = [NoRequest EXCEPT
                                                  !.query = IF kind = "chat" THEN query
                                                            ELSE "",
                                                  !.session_id = sid]]]
    /\ UNCHANGED <<conversation_memory, now, appended, evicted>>
    /\ LoopFrame

\* the loop takes a queued request and enters its handler
LoopStart(t) ==
    /\ task[t].pc = "queued"
    /\ Scheduled(t)
    /\ task' = [task EXCEPT ![t].pc = IF task[t].kind = "chat" THEN "easter_egg"
                                       ELSE "read",
                            ![t].mem0 = conversation_memory]
    /\ UNCHANGED <<conversation_memory, now, appended, evicted>>
    /\ LoopFrame

\* get_session's body
LoopGetSession(t) ==
    /\ task[t].pc = "read"
    /\ Scheduled(t)
    /\ LET r == get_session(conversation_memory, task[t].request.session_id)
       IN /\ conversation_memory' = r.mem
          /\ task' = [task EXCEPT ![t].pc = "return", ![t].ret = Respond(r.body)]
    /\ UNCHANGED <<now, appended, evicted>>
    /\ LoopFrame

\* easter_egg = check_easter_egg(request.query); a hit goes to the saves
LoopEasterEgg(t) ==
    /\ task[t].pc = "easter_egg"
    /\ Scheduled(t)
    /\ LET req == task[t].request
           easter_egg == check_easter_egg(req.query)
           body == [response |-> easter_egg, citations |-> <<>>, easter_egg |-> TRUE,
                    session_id |-> req.session_id]
       IN task' = [task EXCEPT ![t] =
                      IF ~Truthy(easter_egg) THEN [@ EXCEPT !.pc = "embed"]
                      ELSE IF req.session_id = NoSession
                           THEN [@ EXCEPT !.pc = "return", !.response_text = easter_egg,
                                          !.ret = Respond(body)]
                           ELSE [@ EXCEPT !.pc = "save_scan", !.k = 1,
                                          !.response_text = easter_egg,
                                          !.ret = Respond(body)]]
    /\ UNCHANGED <<conversation_memory, now, appended, evicted>>
    /\ LoopFrame

\* get_query_embedding(request.query) returns or raises
LoopEmbed(t) ==
    /\ task[t].pc = "embed"
    /\ Scheduled(t)
    /\ \E outcome \in EmbedOutcomes :
          LET r == get_query_embedding(outcome)
          IN task' = [task EXCEPT ![t] =
                         IF r.raised THEN LoopRaise(t, r.error)
                         ELSE [@ EXCEPT !.pc = "search"]]
    /\ UNCHANGED <<conversation_memory, now, appended, evicted>>
    /\ LoopFrame

\* search_knowledge_base(query_embedding) returns; the prompt is built
LoopSearch(t) ==
    /\ task[t].pc = "search"
    /\ Scheduled(t)
    /\ \E outcome \in SearchOutcomes :
          LET r == search_knowledge_base(outcome)
          IN task' = [task EXCEPT ![t] =
                         IF r.raised THEN LoopRaise(t, r.error)
                         ELSE [@ EXCEPT !.pc = "generate"]]
    /\ UNCHANGED <<conversation_memory, now, appended, evicted>>
    /\ LoopFrame

\* model.generate_content(full_prompt) returns or raises
LoopGenerate(t) ==
    /\ task[t].pc = "generate"
    /\ Scheduled(t)
    /\ \E outcome \in GenOutcomes :
          LET req == task[t].request
              after == AfterGenerate(req, generate_content(outcome))
              body == [response |-> after.response_text, citations |-> <<>>,
                       session_id |-> req.session_id,
                       language |-> req.language]
          IN task' = [task EXCEPT ![t] =
                         IF after.pc # "save"
                         THEN [@ EXCEPT !.pc = "return", !.ret = after.ret,
                                        !.response_text = after.response_text]
                         ELSE IF req.session_id = NoSession
                              THEN [@ EXCEPT !.pc = "return", !.ret = Respond(body),
                                             !.response_text = after.response_text]
                              ELSE [@ EXCEPT !.pc = "save_scan", !.k = 1,
                                             !.ret = Respond(body),
                                             !.response_text = after.response_text]]
    /\ UNCHANGED <<conversation_memory, now, appended, evicted>>
    /\ LoopFrame

\* save_to_session is entered; if the store is full, oldest = min(...)
LoopSaveScan(t) ==
    /\ task[t].pc = "save_scan"
    /\ Scheduled(t)
    /\ \E d \in Ticks : now' = now + d
    /\ task' = [task EXCEPT
                   ![t].at_call = [mem |-> conversation_memory, t |-> now',
                                   n |-> appended[task[t].request.session_id] + 1],
                   ![t].oldest = IF StoreFull(conversation_memory)
                                 THEN conversation_memory[OldestIndex(conversation_memory)].id
                                 ELSE NoSession,
                   ![t].pc = IF StoreFull(conversation_memory) THEN "save_del"
                             ELSE "save_create"]
    /\ UNCHANGED <<conversation_memory, appended, evicted>>
    /\ LoopFrame

\* del conversation_memory[oldest]
LoopSaveDel(t) ==
    /\ task[t].pc = "save_del"
    /\ Scheduled(t)
    /\ IF task[t].oldest \in Keys(conversation_memory)
       THEN /\ conversation_memory' = clear_session(conversation_memory, task[t].oldest)
            /\ evicted' = <<task[t].oldest>>
            /\ task' = [task EXCEPT ![t].pc = "save_create"]
       ELSE /\ task' = [task EXCEPT ![t] = LoopRaise(t, "KeyError")]
            /\ UNCHANGED <<conversation_memory, evicted>>
    /\ UNCHANGED <<now, appended>>
    /\ LoopFrame

\* if session_id not in conversation_memory: conversation_memory[session_id] = {..}
LoopSaveCreate(t) ==
    /\ task[t].pc = "save_create"
    /\ Scheduled(t)
    /\ LET sid == task[t].request.session_id
       IN conversation_memory' =
              IF sid \notin Keys(conversation_memory)
              THEN Append(conversation_memory,
                          [id |-> sid, messages |-> <<>>, created |-> now, updated |-> now])
              ELSE conversation_memory
    /\ task' = [task EXCEPT ![t].pc = "save_append"]
    /\ UNCHANGED <<now, appended, evicted>>
    /\ LoopFrame

\* conversation_memory[session_id]["messages"].append({..})
LoopSaveAppend(t) ==
    /\ task[t].pc = "save_append"
    /\ Scheduled(t)
    /\ LET sid == task[t].request.session_id
           args == SaveArgs(task[t].k, task[t].request, task[t].response_text)
       IN IF sid \in Keys(conversation_memory)
          THEN /\ conversation_memory' =
                      [conversation_memory EXCEPT
                          ![IndexOf(conversation_memory, sid)].messages =
                              Append(@, Turn(args.role, args.content, now,
                                             appended[sid] + 1))]
               /\ appended' = [appended EXCEPT ![sid] = @ + 1]
               /\ task' = [task EXCEPT ![t].pc = "save_touch", ![t].appends = @ + 1]
          ELSE /\ task' = [task EXCEPT ![t] = LoopRaise(t, "KeyError")]
               /\ UNCHANGED <<conversation_memory, appended>>
    /\ UNCHANGED <<now, evicted>>
    /\ LoopFrame

\* conversation_memory[session_id]["updated"] = ..
LoopSaveTouch(t) ==
    /\ task[t].pc = "save_touch"
    /\ Scheduled(t)
    /\ LET sid == task[t].request.session_id
       IN IF sid \in Keys(conversation_memory)
          THEN /\ conversation_memory' =
                      [conversation_memory EXCEPT
                          ![IndexOf(conversation_memory, sid)].updated = now]
               /\ task' = [task EXCEPT ![t].pc = "save_trim"]
          ELSE /\ task' = [task EXCEPT ![t] = LoopRaise(t, "KeyError")]
               /\ UNCHANGED conversation_memory
    /\ UNCHANGED <<now, appended, evicted>>
    /\ LoopFrame

\* if len(messages) > MAX_MESSAGES_PER_SESSION: the slice is taken
LoopSaveTrim(t) ==
    /\ task[t].pc = "save_trim"
    /\ Scheduled(t)
    /\ LET sid == task[t].request.session_id
       IN IF sid \in Keys(conversation_memory)
          THEN LET msgs == conversation_memory[IndexOf(conversation_memory, sid)].messages
               IN task' = [task EXCEPT
                              ![t].slice = TrimMessages(msgs),
                              ![t].pc = IF Len(msgs) > MAX_MESSAGES_PER_SESSION
                                        THEN "save_trim_store" ELSE "save_return"]
          ELSE task' = [task EXCEPT ![t] = LoopRaise(t, "KeyError")]
    /\ UNCHANGED <<conversation_memory, now, appended, evicted>>
    /\ LoopFrame

\* conversation_memory[session_id]["messages"] = the slice
LoopSaveTrimStore(t) ==
    /\ task[t].pc = "save_trim_store"
    /\ Scheduled(t)
    /\ LET sid == task[t].request.session_id
       IN IF sid \in Keys(conversation_memory)
          THEN /\ conversation_memory' =
                      [conversation_memory EXCEPT
                          ![IndexOf(conversation_memory, sid)].messages = task[t].slice]
               /\ task' = [task EXCEPT ![t].pc = "save_return"]
          ELSE /\ task' = [task EXCEPT ![t] = LoopRaise(t, "KeyError")]
               /\ UNCHANGED conversation_memory
    /\ UNCHANGED <<now, appended, evicted>>
    /\ LoopFrame

\* save_to_session returns: to the second save, or to chat's return
LoopSaveReturn(t) ==
    /\ task[t].pc = "save_return"
    /\ Scheduled(t)
    /\ task' = [task EXCEPT ![t].pc = IF task[t].k = 1 THEN "save_scan" ELSE "return",
                            ![t].k = IF task[t].k = 1 THEN 2 ELSE task[t].k]
    /\ UNCHANGED <<conversation_memory, now, appended, evicted>>
    /\ LoopFrame

\* the handler returns and its response is sent
LoopReturn(t) ==
    /\ task[t].pc = "return"
    /\ Scheduled(t)
    /\ task' = [task EXCEPT ![t] = NoTask]
    /\ UNCHANGED <<conversation_memory, now, appended, evicted>>
    /\ LoopFrame

\* a step of the handler of the request in slot t
LoopStep(t) ==
    \/ LoopStart(t)
    \/ LoopGetSession(t)
    \/ LoopEasterEgg(t)
    \/ LoopEmbed(t)
    \/ LoopSearch(t)
    \/ LoopGenerate(t)
    \/ LoopSaveScan(t)
    \/ LoopSaveDel(t)
    \/ LoopSaveCreate(t)
    \/ LoopSaveAppend(t)
    \/ LoopSaveTouch(t)
    \/ LoopSaveTrim(t)
    \/ LoopSaveTrimStore(t)
    \/ LoopSaveReturn(t)
    \/ LoopReturn(t)

NextLoop ==
    \/ \E t \in Tasks, kind \in LoopKinds, query \in LoopQueries,
          sid \in SessionIds \cup {NoSession} : Arrive(t, kind, query, sid)
    \/ \E t \in Tasks : LoopStart(t)
    \/ \E t \in Tasks : LoopGetSession(t)
    \/ \E t \in Tasks : LoopEasterEgg(t)
    \/ \E t \in Tasks : LoopEmbed(t)
    \/ \E t \in Tasks : LoopSearch(t)
    \/ \E t \in Tasks : LoopGenerate(t)
    \/ \E t \in Tasks : LoopSaveScan(t)
    \/ \E t \in Tasks : LoopSaveDel(t)
    \/ \E t \in Tasks : LoopSaveCreate(t)
    \/ \E t \in Tasks : LoopSaveAppend(t)
    \/ \E t \in Tasks : LoopSaveTouch(t)
    \/ \E t \in Tasks : LoopSaveTrim(t)
    \/ \E t \in Tasks : LoopSaveTrimStore(t)
    \/ \E t \in Tasks : LoopSaveReturn(t)
    \/ \E t \in Tasks : LoopReturn(t)

SpecLoop == Init /\ [][NextLoop]_vars

(***************************************************************************)
(* C1.  Whatever appends were made, to this session or to others, a live   *)
(* session holds at most MAX_MESSAGES_PER_SESSION turns, and they are the  *)
(* most recent turns appended to its id, in arrival order: the turns       *)
(* numbered appended[id] - len + 1 .. appended[id].                        *)
(***************************************************************************)
C1_BoundedRecentTurns ==
    \A i \in 1..Len(conversation_memory) :
        LET s == conversation_memory[i]
            n == Len(s.messages)
        IN /\ n <= MAX_MESSAGES_PER_SESSION
           /\ \A j \in 1..n : s.messages[j].seq = appended[s.id] - n + j

\* a session that was trimmed, beside another live session
C1_Witness ==
    /\ Len(conversation_memory) >= 2
    /\ \E i \in 1..Len(conversation_memory) :
           LET s == conversation_memory[i]
           IN /\ Len(s.messages) = MAX_MESSAGES_PER_SESSION
              /\ s.messages[1].seq > 1
              /\ appended[s.id] > MAX_MESSAGES_PER_SESSION

(***************************************************************************)
(* C2.  The store never holds more than MAX_MEMORY_SESSIONS sessions, and  *)
(* a step that creates a session in a full store leaves it exactly full.   *)
(***************************************************************************)
CreatesSession ==
    \E sid \in SessionIds :
        sid \notin Keys(conversation_memory) /\ sid \in Keys(conversation_memory')

C2_SessionCountBounded ==
    /\ [](Len(conversation_memory) <= MAX_MEMORY_SESSIONS)
    /\ [][(Len(conversation_memory) >= MAX_MEMORY_SESSIONS /\ CreatesSession)
            => Len(conversation_memory') = MAX_MEMORY_SESSIONS]_vars

\* a session was just created in a full store: one evicted, one added
C2_Witness ==
    /\ Len(conversation_memory) = MAX_MEMORY_SESSIONS
    /\ Len(evicted) = 1
    /\ evicted[1] \notin Keys(conversation_memory)

(***************************************************************************)
(* C3.  An eviction removes the live session with the smallest `updated`,  *)
(* the first inserted among equals.  So when the first inserted session    *)
(* was touched only at its creation, the creation of a session in the full *)
(* store removes it and leaves MAX_MEMORY_SESSIONS sessions.               *)
(***************************************************************************)
IsOldest(mem, k) ==
    /\ \A j \in 1..Len(mem) : mem[k].updated <= mem[j].updated
    /\ \A j \in 1..(k - 1) : mem[k].updated < mem[j].updated

C3_EvictsOldest ==
    [][evicted' # <<>> =>
         /\ Len(evicted') = 1
         /\ \E k \in 1..Len(conversation_memory) :
                /\ conversation_memory[k].id = evicted'[1]
                /\ IsOldest(conversation_memory, k)
         /\ (appended[conversation_memory[1].id] = 1 /\ CreatesSession)
                => /\ evicted'[1] = conversation_memory[1].id
                   /\ evicted'[1] \notin Keys(conversation_memory')
                   /\ Len(conversation_memory') = MAX_MEMORY_SESSIONS]_vars

\* s0, s1, s2 were created in this order, s0 and s1 at the same instant,
\* and the creation of s2 evicted s0
C3_Witness ==
    /\ evicted = <<"s0">>
    /\ appended["s0"] = 1
    /\ Len(conversation_memory) = MAX_MEMORY_SESSIONS
    /\ Keys(conversation_memory) = {"s1", "s2"}
    /\ conversation_memory[1].created = 0
    /\ conversation_memory[1].updated = 0

(***************************************************************************)
(* C4.  Under upload_knowledge calls made one after the other, whose       *)
(* purge, embedding and insert may each fail, no source_id has more than   *)
(* one stored document.                                                    *)
(***************************************************************************)
C4_OneDocumentPerSourceId ==
    ~overlapped =>
        \A x \in SourceIds : Len(DocsOf(documents, x)) <= 1

(***************************************************************************)
(* C5.  After an upsert of a source_id with content C1 and then one with   *)
(* content C2, made one after the other and both reporting success, the    *)
(* corpus holds exactly one document with that key, and its content is C2. *)
(***************************************************************************)
C5_UpsertTwiceLeavesTheSecond ==
    \A x \in SourceIds :
        (/\ ~overlapped
         /\ \A w \in Workers : upl[w].pc = "idle"
         /\ last[x].ok
         /\ last[x].successes = 2
         /\ last[x].before = "C1"
         /\ last[x].content = "C2")
        => /\ Len(DocsOf(documents, x)) = 1
           /\ DocsOf(documents, x)[1].content = "C2"

(***************************************************************************)
(* C6.  A turn whose generation call fails with a rate-limit signal hands  *)
(* back the fixed apology, and leaves the session store as it found it:    *)
(* the session's turn list is the one the turn started with.               *)
(***************************************************************************)
RateLimitErrors == {"ResourceExhausted: quota", "429 Too Many Requests"}

GenerationFailedWith(errors) ==
    /\ calls # <<>>
    /\ calls[Len(calls)].fn = "generate"
    /\ ~calls[Len(calls)].ok
    /\ calls[Len(calls)].error \in errors

C6_RateLimitApologyNotPersisted ==
    (pc = "done" /\ GenerationFailedWith(RateLimitErrors))
        => /\ ret.kind = "return"
           /\ ret.body.response = APOLOGY
           /\ get_session_history(conversation_memory, request.session_id)
                 = get_session_history(mem0, request.session_id)
           /\ conversation_memory = mem0

\* a rate-limited turn on a session that holds turns already
C6_Witness ==
    /\ pc = "done"
    /\ GenerationFailedWith(RateLimitErrors)
    /\ request.session_id # NoSession
    /\ Len(get_session_history(conversation_memory, request.session_id)) >= 2

(***************************************************************************)
(* C7.  A turn whose query, lower-cased and stripped, contains a trigger   *)
(* makes no embedding, search or generation call, and hands back the       *)
(* response of the first such trigger of the table, with no citations.     *)
(***************************************************************************)
TriggerIn(i, query) ==
    Contains(Chars(EASTER_EGGS[i].trigger), strip(lower(Chars(query))))

C7_EasterEggShortCircuit ==
    (pc # "idle" /\ \E i \in 1..Len(EASTER_EGGS) : TriggerIn(i, request.query))
        => /\ calls = <<>>
           /\ pc \in {"easter_egg", "done"}
           /\ pc = "done" =>
                 /\ ret.kind = "return"
                 /\ ret.body.citations = <<>>
                 /\ \E i \in 1..Len(EASTER_EGGS) :
                       /\ TriggerIn(i, request.query)
                       /\ \A j \in 1..(i - 1) : ~TriggerIn(j, request.query)
                       /\ ret.body.response = EASTER_EGGS[i].response
                 /\ request.query = "what is charon"
                       => ret.body.response = EASTER_EGGS[7].response

\* the query in capitals and padded, answered from the table
C7_Witness ==
    /\ pc = "done"
    /\ request.query = "  SUDO Tell me a Secret "
    /\ request.session_id # NoSession
    /\ ret.body.response = EASTER_EGGS[4].response
    /\ calls = <<>>

(***************************************************************************)
(* C8.  A turn whose query embedding fails goes on with no context: it     *)
(* still calls generation and hands back no error response.                *)
(***************************************************************************)
EmbeddingFailed == calls # <<>> /\ calls[1].fn = "embed" /\ ~calls[1].ok

C8_EmbeddingFailureDegrades ==
    (pc = "done" /\ EmbeddingFailed)
        => /\ \E k \in 1..Len(calls) : calls[k].fn = "generate"
           /\ ret.kind = "return"
           /\ ret.body.response # CRITICAL

(***************************************************************************)
(* C9.  When the vector search raises, the turn goes on with no documents: *)
(* the prompt has no context, generation is called, and the turn hands     *)
(* back no citations and, when generation succeeds, the generated answer.  *)
(***************************************************************************)
SearchFailed == \E k \in 1..Len(calls) : calls[k].fn = "search" /\ ~calls[k].ok

GenerationCalled == \E k \in 1..Len(calls) : calls[k].fn = "generate"

C9_SearchFailureDegrades ==
    SearchFailed
        => /\ pc \in {"build", "generate", "save", "done"}
           /\ loc.context_docs = <<>>
           /\ pc # "build" =>
                 /\ loc.citations = <<>>
                 /\ loc.system_prompt.context_text = <<>>
           /\ pc \in {"save", "done"} => GenerationCalled
           /\ pc = "done" =>
                 /\ ret.kind = "return"
                 /\ ret.body.citations = <<>>
                 /\ calls[Len(calls)].ok =>
                       /\ ret.body.response = "generated answer"
                       /\ ret.body.response \notin {APOLOGY, CRITICAL}

\* the search failed and the turn ended with the generated answer
C9_Witness ==
    /\ pc = "done"
    /\ SearchFailed
    /\ ret.kind = "return"
    /\ ret.body.response = "generated answer"
    /\ ret.body.citations = <<>>

(***************************************************************************)
(* C10.  No exception leaves the chat handler, and a turn whose generation *)
(* call fails with an error that is no rate-limit signal hands back the    *)
(* fixed critical-error message as its response.                           *)
(***************************************************************************)
C10_GenerationErrorGivesCriticalMessage ==
    /\ ret.kind # "raise"
    /\ (pc = "done" /\ GenerationFailedWith(GenErrors \ RateLimitErrors))
          => /\ ret.kind = "return"
             /\ ret.body.response = CRITICAL
             /\ ret.body.citations = <<>>

\* generation failed with a provider error and the turn ended with the message
C10_Witness ==
    /\ pc = "done"
    /\ GenerationFailedWith({ProviderError})
    /\ ret.kind = "return"
    /\ ret.body.response = CRITICAL

(***************************************************************************)
(* C11.  A streaming turn whose generation fails does not end in an        *)
(* unhandled failure: its consumer is given the fixed apology when the     *)
(* error is a rate-limit signal and the fixed critical-error message       *)
(* otherwise.                                                              *)
(***************************************************************************)
C11_StreamMirrorsFailurePolicy ==
    (pc \in StreamOver /\ GenerationFailedWith(GenErrors))
        => /\ pc # "stream_failed"
           /\ \E k \in 1..Len(events) :
                  events[k] = TextEvent(IF calls[Len(calls)].error \in RateLimitErrors
                                        THEN APOLOGY ELSE CRITICAL)

(***************************************************************************)
(* C17.  A stream that the generator ends, by returning or by raising,     *)
(* has exactly one done event, which is its last event, and before it one  *)
(* text event for each non-empty chunk the model produced, in that order.  *)
(***************************************************************************)
NonEmptyTexts(got) == SelectSeq(got, LAMBDA t : t # "")

C17_StreamEndsWithOneDone ==
    pc \in {"stream_end", "stream_failed"}
        => /\ events # <<>>
           /\ events[Len(events)] = DoneEvent
           /\ \A k \in 1..(Len(events) - 1) :
                  /\ events[k] # DoneEvent
                  /\ events[k] = TextEvent(NonEmptyTexts(pulled)[k])
           /\ Len(events) = Len(NonEmptyTexts(pulled)) + 1

(***************************************************************************)
(* C18.  Once the consumer has disconnected, the generator takes no        *)
(* further chunk from the model and yields no further event.               *)
(***************************************************************************)
C18_NothingAfterDisconnect ==
    disconnected
        => /\ Len(pulled) = atDisconnect.pulled
           /\ Len(events) = atDisconnect.events

Ingestible(source, listing) ==
    {k \in 1..Len(listing) : ~Skipped(source, listing[k])}

C13_FetchFailureIsolated ==
    /\ sync.pc # "crashed"
    /\ \A k \in 1..Len(SyncSources) :
           sync.fetch[SyncSources[k]] # "none"
               => \A j \in 1..(k - 1) : SyncSources[j] \in sync.returned
    /\ \A x \in SourceNames :
           sync.fetch[x] = "failed" => (x \in sync.returned /\ sync.results[x] = 0)
    /\ sync.pc = "done" =>
           /\ \A x \in SourceNames :
                  /\ sync.fetch[x] # "none"
                  /\ x \in sync.returned
                  /\ sync.fetch[x] = "listing"
                         => sync.attempts[x] = Cardinality(Ingestible(x, sync.listed[x]))
                  /\ sync.results[x] <= sync.attempts[x]
           /\ sync.total = sync.results["github"] + sync.results["kaggle"]
                              + sync.results["blog"]

\* the github fetch failed, and the kaggle and blog items were ingested
C13_Witness ==
    /\ sync.pc = "done"
    /\ sync.fetch["github"] = "failed"
    /\ sync.results = [github |-> 0, kaggle |-> 1, blog |-> 1]
    /\ sync.total = 2
    /\ Len(DocsOf(documents, kaggle_source_id("allieniola/Titanic-EDA"))) = 1
    /\ Len(DocsOf(documents, blog_source_id("Hello-Rust"))) = 1

(***************************************************************************)
(* C14.  Foo-Bar and baz are stored under github_foo_bar and github_baz,   *)
(* no upload is made for a fork, and after a sync run whose github upserts *)
(* all reported success the table holds exactly one document for each      *)
(* non-fork repository of the listing and none for a fork.                 *)
(***************************************************************************)
C14_OneDocumentPerNonFork ==
    /\ github_source_id("Foo-Bar") = "github_foo_bar"
    /\ github_source_id("baz") = "github_baz"
    /\ sync.up.called => sync.up.source_id # github_source_id("Forked-Lib")
    /\ (/\ sync.pc = "done"
        /\ sync.fetch["github"] = "listing"
        /\ sync.results["github"]
              = Cardinality(Ingestible("github", sync.listed["github"])))
          => \A k \in 1..Len(sync.listed["github"]) :
                 LET repo == sync.listed["github"][k]
                 IN Len(DocsOf(documents, github_source_id(repo.name)))
                        = IF repo.fork THEN 0 ELSE 1

(***************************************************************************)
(* C15.  The system prompt a turn builds has no language block and no      *)
(* directive text when the language is "en" or a code that is not          *)
(* supported, and has the directive of a supported code other than "en"    *)
(* exactly once.                                                           *)
(***************************************************************************)
PromptBuilt == pc \in {"generate", "save"} \/ (pc = "done" /\ GenerationCalled)

TurnLanguage == IF Truthy(request.language) THEN request.language ELSE "en"

Occurrences(lines, text) == Cardinality({k \in 1..Len(lines) : lines[k].text = text})

C15_LanguageDirective ==
    PromptBuilt =>
        LET lines == PromptLines(loc.system_prompt)
        IN IF TurnLanguage # "en" /\ TurnLanguage \in DOMAIN SUPPORTED_LANGUAGES
           THEN /\ Occurrences(lines, LANGUAGE_PROMPTS[TurnLanguage]) = 1
                /\ Occurrences(lines, "## LANGUAGE INSTRUCTION") = 1
           ELSE /\ \A k \in 1..Len(lines) :
                       lines[k].kind \notin {"language_header", "directive", "respond_in"}
                /\ Occurrences(lines, "## LANGUAGE INSTRUCTION") = 0
                /\ \A l \in DOMAIN LANGUAGE_PROMPTS :
                       Occurrences(lines, LANGUAGE_PROMPTS[l]) = 0

\* a turn in French, with documents in its prompt
C15_Witness ==
    /\ pc = "generate"
    /\ request.language = "fr"
    /\ loc.context_docs # <<>>
    /\ Occurrences(PromptLines(loc.system_prompt), LANGUAGE_PROMPTS["fr"]) = 1

(***************************************************************************)
(* C16.  The citations of a turn are one per retrieved document of type    *)
(* project, in retrieval order, and none for another type.  As the claim   *)
(* has it, a citation's ref is the slug of the document's name: the name   *)
(* lower-cased, its spaces replaced by underscores.                        *)
(***************************************************************************)
Slug(metadata) == ReplaceChar(lower(NameChars(metadata)), 32, 95)

ProjectDocs(docs) == SelectSeq(docs, LAMBDA d : d.metadata.type = "project")

OnePerProject(docs, citations) ==
    /\ Len(citations) = Len(ProjectDocs(docs))
    /\ \A k \in 1..Len(citations) :
           /\ citations[k].type = "project"
           /\ citations[k].name
                 = MetadataGet(ProjectDocs(docs)[k].metadata, "name", "Unknown Project")
           /\ citations[k].url = ProjectDocs(docs)[k].metadata.url

C16_RefIsSlug ==
    PromptBuilt =>
        /\ OnePerProject(loc.context_docs, loc.citations)
        /\ \A k \in 1..Len(loc.citations) :
               loc.citations[k].ref = Slug(ProjectDocs(loc.context_docs)[k].metadata)

(***************************************************************************)
(* C16, amended.  One citation per retrieved document of type project, in  *)
(* retrieval order, none for another type; a citation's ref is "project_"  *)
(* followed by the slug of the document's name.                            *)
(***************************************************************************)
C16_RefIsPrefixedSlug ==
    PromptBuilt =>
        /\ OnePerProject(loc.context_docs, loc.citations)
        /\ \A k \in 1..Len(loc.citations) :
               loc.citations[k].ref
                   = Chars("project_") \o Slug(ProjectDocs(loc.context_docs)[k].metadata)

\* two project documents around a blog post: two citations, in order
C16_Witness ==
    /\ pc = "done"
    /\ Len(loc.context_docs) = 3
    /\ Len(ret.body.citations) = 2
    /\ ret.body.citations[1].name = "My App"
    /\ ret.body.citations[1].ref = Chars("project_my_app")
    /\ ret.body.citations[2].name = "Unknown Project"
    /\ ret.body.citations[2].ref = Chars("project_")

(***************************************************************************)
(* C19.  Reading a session's history changes nothing in the store: no      *)
(* session is created, no `updated` is touched.  The turns handed back are *)
(* the stored ones, in order, for a live id, and none for an unknown or    *)
(* empty id.                                                               *)
(***************************************************************************)
C19_GetLeavesStore ==
    [][reply'.endpoint = "get_session" =>
          /\ conversation_memory' = conversation_memory
          /\ reply'.body.messages =
                 IF \E i \in 1..Len(conversation_memory) :
                        conversation_memory[i].id = reply'.session_id
                 THEN conversation_memory[
                          CHOOSE i \in 1..Len(conversation_memory) :
                              conversation_memory[i].id = reply'.session_id].messages
                 ELSE <<>>
          /\ reply'.body.message_count = Len(reply'.body.messages)
          /\ reply'.session_id = NoSession => reply'.body.messages = <<>>]_vars

\* the two turns of a live session were read, beside another session
C19_Witness ==
    /\ reply.endpoint = "get_session"
    /\ reply.session_id \in Keys(conversation_memory)
    /\ Len(conversation_memory) = 2
    /\ Len(reply.body.messages) = 2
    /\ reply.body.messages[1].seq < reply.body.messages[2].seq
    /\ reply.body.updated = SessionField(conversation_memory, reply.session_id, "updated")

(***************************************************************************)
(* C20.  Deleting a session removes its entry and no other, and changes    *)
(* nothing when there is none; from then on the session's history is empty *)
(* until a turn is appended to its id.                                     *)
(***************************************************************************)
C20_ClearRemovesOne ==
    [][/\ reply'.endpoint = "delete_session" =>
             /\ conversation_memory' =
                    SelectSeq(conversation_memory,
                              LAMBDA e : e.id # reply'.session_id)
             /\ reply'.session_id \notin Keys(conversation_memory)
                    => conversation_memory' = conversation_memory
             /\ get_session_history(conversation_memory', reply'.session_id) = <<>>
       /\ \A sid \in SessionIds :
             (/\ get_session_history(conversation_memory, sid) = <<>>
              /\ appended'[sid] = appended[sid])
                 => get_session_history(conversation_memory', sid) = <<>>]_vars

\* a session that held turns was deleted, and another is still there
C20_Witness ==
    /\ reply.endpoint = "delete_session"
    /\ reply.session_id \in SessionIds
    /\ appended[reply.session_id] > 0
    /\ reply.session_id \notin Keys(conversation_memory)
    /\ Len(conversation_memory) >= 1

(***************************************************************************)
(* C21.  A session is evicted only as part of creating a new one: a chat   *)
(* turn on a session that was live when the turn began removes no session, *)
(* and a turn that creates a session in a full store evicts exactly one.   *)
(***************************************************************************)
C21_EvictionOnlyOnCreate ==
    (pc = "done" /\ request.session_id # NoSession /\ conversation_memory # mem0) =>
        /\ request.session_id \in Keys(mem0) => evicted = <<>>
        /\ (request.session_id \notin Keys(mem0) /\ StoreFull(mem0)) => Len(evicted) = 1
        /\ evicted # <<>> => (request.session_id \notin Keys(mem0) /\ StoreFull(mem0))

(***************************************************************************)
(* C22.  The saves of concurrent chat requests are serialized: whatever    *)
(* requests are in flight, on the same session or on others, no two        *)
(* handlers stand inside save_to_session at once, a save that returns has  *)
(* had on the store exactly the effect of the whole function applied to    *)
(* the store as it was when the save was called, no statement of a save    *)
(* finds the entry it works on gone (no eviction of a session already      *)
(* evicted, no append to one), and a live session's turns are consecutive  *)
(* up to the last one appended to its id: none was lost.                   *)
(***************************************************************************)
InSave(t) == task[t].pc \in SavePcs

SaveOf(t) == SaveArgs(task[t].k, task[t].request, task[t].response_text)

C22_SavesSerialized ==
    /\ \A t \in Tasks :
          /\ task[t].error # "KeyError"
          /\ InSave(t) => \A u \in Tasks \ {t} : ~InSave(u)
          /\ task[t].pc = "save_return" =>
                conversation_memory =
                    save_to_session(task[t].at_call.mem, task[t].request.session_id,
                                    Turn(SaveOf(t).role, SaveOf(t).content,
                                         task[t].at_call.t, task[t].at_call.n),
                                    task[t].at_call.t)
    /\ \A i \in 1..Len(conversation_memory) :
          LET msgs == conversation_memory[i].messages
          IN \A j \in 1..Len(msgs) :
                msgs[j].seq = appended[conversation_memory[i].id] - Len(msgs) + j

\* a turn's second save, which evicted a session, returns while another
\* request is queued behind it
C22_Witness ==
    \E t \in Tasks, u \in Tasks :
        /\ task[t].pc = "save_return"
        /\ task[t].k = 2
        /\ task[u].pc = "queued"
        /\ evicted # <<>>

(***************************************************************************)
(* C25.  When a chat handler with a session id is about to return a        *)
(* generated answer or an easter-egg response, it has appended exactly two *)
(* turns, and they are the last two turns of its session: the user's       *)
(* query and then the assistant's response, next to each other, whatever   *)
(* other requests are in flight.  A chat handler without a session id      *)
(* returns with the store as it was when it started.                       *)
(***************************************************************************)
Answered(t) ==
    /\ task[t].pc = "return"
    /\ task[t].kind = "chat"
    /\ task[t].ret.kind = "return"
    /\ task[t].ret.body.response \notin {APOLOGY, CRITICAL}

C25_TurnAppendsUserThenAssistant ==
    \A t \in Tasks :
        /\ Answered(t) /\ task[t].request.session_id # NoSession =>
              LET sid == task[t].request.session_id
                  msgs == get_session_history(conversation_memory, sid)
                  n == Len(msgs)
              IN /\ task[t].appends = 2
                 /\ n >= 2
                 /\ msgs[n - 1].role = "user"
                 /\ msgs[n - 1].content = task[t].request.query
                 /\ msgs[n].role = "assistant"
                 /\ msgs[n].content = task[t].ret.body.response
                 /\ msgs[n].seq = msgs[n - 1].seq + 1
                 /\ msgs[n].seq = appended[sid]
        /\ (task[t].pc = "return" /\ task[t].kind = "chat"
               /\ task[t].request.session_id = NoSession) =>
              /\ task[t].appends = 0
              /\ conversation_memory = task[t].mem0

\* a generated answer is about to be returned for a session that held two
\* turns already, while a second chat turn on that session is queued
C25_Witness ==
    \E t \in Tasks, u \in Tasks :
        /\ Answered(t)
        /\ task[t].ret.body.response = "generated answer"
        /\ task[t].request.session_id \in Keys(task[t].mem0)
        /\ task[u].pc = "queued"
        /\ task[u].kind = "chat"
        /\ task[u].request.session_id = NoSession

(***************************************************************************)
(* C30.  A chat request that stands in an external call (the embedding,    *)
(* the search or the generation) does not block the others: whenever one   *)
(* request is in such a call, every other request in flight can take its   *)
(* next step, be it to start or to go on to its end.                       *)
(***************************************************************************)
C30_ExternalCallDoesNotBlock ==
    \A t \in Tasks, u \in Tasks :
        (/\ t # u
         /\ task[t].pc \in ExternalCallPcs
         /\ task[u].pc # "idle") => ENABLED LoopStep(u)

(***************************************************************************)
(* C23.  Sync runs are single-flight per source: two upload_knowledge      *)
(* calls for the same source_id are never in progress at once, so their    *)
(* delete and insert steps do not interleave, and when no call is in       *)
(* progress every source_id that was synced has exactly one document.      *)
(***************************************************************************)
C23_SingleFlightPerSource ==
    /\ \A w \in Workers, v \in Workers :
          (w # v /\ upl[w].pc # "idle" /\ upl[v].pc # "idle") =>
              upl[w].source_id # upl[v].source_id
    /\ (\A w \in Workers : upl[w].pc = "idle") =>
          \A x \in SourceIds :
              last[x].successes > 0 => Len(DocsOf(documents, x)) = 1

(***************************************************************************)
(* C24.  Within one chat turn the steps run in the order easter-egg check, *)
(* embed, search, prompt build, generate, session append, each after the   *)
(* one before it has finished: the provider calls made so far are always   *)
(* the first ones of embed, search, generate, the turn stands where the    *)
(* last of them left it, and the store is as the turn found it until the   *)
(* turn is over.  As claimed, the session is appended to only after a      *)
(* successful generation; as the code has it, also on an easter-egg hit,   *)
(* right after the check and with no provider call made.                   *)
(***************************************************************************)
CallOrder == <<"embed", "search", "generate">>

StepsInOrder ==
    /\ Len(calls) <= Len(CallOrder)
    /\ \A i \in 1..Len(calls) : calls[i].fn = CallOrder[i]
    /\ \A i \in 1..(Len(calls) - 1) : calls[i].fn = "embed" => calls[i].ok
    /\ pc \in {"easter_egg", "embed"} => calls = <<>>
    /\ pc = "search" => Len(calls) = 1
    /\ pc \in {"build", "generate"} => Len(calls) = 2
    /\ pc = "generate" =>
          loc.full_prompt = FullPrompt(loc.system_prompt, loc.combined_history,
                                       request.query)
    /\ pc = "save" => (Len(calls) = 3 /\ calls[3].ok)
    /\ pc \in {"easter_egg", "embed", "search", "build", "generate", "save"} =>
          conversation_memory = mem0

Appended == pc = "done" /\ conversation_memory # mem0

EasterEggHit == calls = <<>> /\ Truthy(check_easter_egg(request.query))

C24_AppendOnlyAfterGeneration ==
    /\ StepsInOrder
    /\ Appended => (Len(calls) = 3 /\ calls[3].ok)

C24_AppendAfterGenerationOrEasterEgg ==
    /\ StepsInOrder
    /\ Appended => (\/ Len(calls) = 3 /\ calls[3].ok
                    \/ EasterEggHit)

\* a turn that went through every step and appended
C24_Witness ==
    /\ Appended
    /\ Len(calls) = 3
    /\ loc.response_text = "generated answer"

(***************************************************************************)
(* C26.  The streaming turn conditions generation on the system prompt the *)
(* synchronous turn builds for the same documents and the same request     *)
(* language: the prompt handed to the generator is                         *)
(* build_system_prompt(context_docs, request.language or "en"), so a       *)
(* language with a directive has it in the streamed turn's prompt too.     *)
(***************************************************************************)
StreamPromptBuilt == pc \in StreamOpen \cup (StreamOver \ {"stream_error"})

C26_StreamSharesPromptConstruction ==
    StreamPromptBuilt =>
        /\ loc.system_prompt =
               build_system_prompt(loc.context_docs, TurnLanguage).system_prompt
        /\ LanguageInstruction(TurnLanguage) # <<>> =>
               loc.system_prompt.language_instruction = LanguageInstruction(TurnLanguage)

(***************************************************************************)
(* C27.  In both modes what the model is given holds the system prompt,    *)
(* then the last 6 of the turns before this one (all of them when there    *)
(* are fewer), in their order and each under its role's tag, then the      *)
(* query, once and last.  The turns before this one are the session's,     *)
(* or the client's conversation_history when the session has none, in the  *)
(* synchronous mode, and the client's conversation_history in streaming.   *)
(***************************************************************************)
Min(a, b) == IF a <= b THEN a ELSE b

\* the turns before the synchronous turn in progress
PriorTurns ==
    IF get_session_history(mem0, request.session_id) # <<>>
    THEN get_session_history(mem0, request.session_id)
    ELSE request.conversation_history

SyncPromptBuilt == pc \in {"generate", "save"} \/ (pc = "done" /\ Len(calls) = 3)

SyncWindow ==
    LET prior == PriorTurns
        n == Len(prior)
        w == loc.full_prompt.history_text
        k == Len(w)
    IN /\ k = Min(n, 6)
       /\ loc.full_prompt.system_prompt = loc.system_prompt
       /\ loc.full_prompt.query = request.query
       /\ \A i \in 1..k :
             /\ w[i].content = prior[n - k + i].content
             /\ "role" \in DOMAIN prior[n - k + i] =>
                   w[i].role = Str(upper(Chars(prior[n - k + i].role)))

StreamWindow ==
    LET prior == request.conversation_history
        n == Len(prior)
        m == loc.messages
        k == Len(m) - 3
    IN /\ k = Min(n, 6)
       /\ m[1] = [role |-> "user", parts |-> <<loc.system_prompt>>]
       /\ m[2] = [role |-> "model", parts |-> <<ACK>>]
       /\ m[Len(m)] = [role |-> "user", parts |-> <<request.query>>]
       /\ \A i \in 1..k :
             /\ m[2 + i].parts = <<prior[n - k + i].content>>
             /\ "role" \in DOMAIN prior[n - k + i] =>
                   m[2 + i].role = (IF prior[n - k + i].role = "user" THEN "user"
                                    ELSE "model")

C27_LastSixTurnsInBothModes ==
    /\ SyncPromptBuilt => SyncWindow
    /\ loc.messages # <<>> => StreamWindow

\* a synchronous turn about to call the model, with more than 6 turns before it
C27_Witness ==
    /\ pc = "generate"
    /\ Len(PriorTurns) > HISTORY_WINDOW
    /\ Len(loc.full_prompt.history_text) = HISTORY_WINDOW

(***************************************************************************)
(* C28.  A purge that fails does not abort upload_knowledge: the call      *)
(* goes on to the embedding and the insert, it reports success exactly     *)
(* when both succeed, and then the new document has been added to the      *)
(* table, which the failed purge left as it was, and the item is counted.  *)
(***************************************************************************)
PurgeFailed == sync.up.called /\ ~sync.up.outcome.purge

C28_PurgeFailureDoesNotAbort ==
    PurgeFailed =>
        /\ sync.up.ok = (sync.up.outcome.embed /\ sync.up.outcome.insert)
        /\ sync.up.ok =>
              /\ Len(documents) = Len(sync.up.before) + 1
              /\ SubSeq(documents, 1, Len(sync.up.before)) = sync.up.before
              /\ documents[Len(documents)].metadata.source_id = sync.up.source_id
              /\ sync.up.counted = sync.up.synced + 1
        /\ ~sync.up.ok => documents = sync.up.before

\* the purge failed, the embedding and the insert succeeded
C28_Witness ==
    /\ PurgeFailed
    /\ sync.up.ok
    /\ sync.up.before # <<>>

(***************************************************************************)
(* C29.  check_easter_egg, as the chat turn applies it to its query: the   *)
(* turn takes the easter-egg return exactly when some trigger is in the    *)
(* query, lower-cased and stripped, and the response is then that of the   *)
(* matching entry that comes first in the table, also when a later entry's *)
(* trigger occurs earlier in the query.                                    *)
(***************************************************************************)
Hits(query) == {i \in 1..Len(EASTER_EGGS) : TriggerIn(i, query)}

FirstHit(query) == CHOOSE i \in Hits(query) : \A j \in Hits(query) : i <= j

EasterEggChecked == pc \in {"embed", "search", "build", "generate", "save", "done"}

EasterEggReturned ==
    pc = "done" /\ ret.kind = "return" /\ "easter_egg" \in DOMAIN ret.body

C29_FirstMatchInTableOrder ==
    EasterEggChecked =>
        /\ EasterEggReturned <=> Hits(request.query) # {}
        /\ EasterEggReturned =>
              ret.body.response = EASTER_EGGS[FirstHit(request.query)].response

\* two triggers in the query, the one that comes later in the table first
C29_Witness ==
    /\ EasterEggReturned
    /\ \E i \in Hits(request.query), j \in Hits(request.query) :
          /\ i < j
          /\ Position(Chars(EASTER_EGGS[j].trigger), strip(lower(Chars(request.query))))
                < Position(Chars(EASTER_EGGS[i].trigger), strip(lower(Chars(request.query))))
          /\ ret.body.response = EASTER_EGGS[i].response

(***************************************************************************)
(* C31.  The count a sync function returns is the number of documents its  *)
(* run left in the table for its source, also when two items of the        *)
(* listing come to the same source_id.  Stated of a first run, which       *)
(* starts from an empty table, so that every document under one of the     *)
(* listing's source_ids was left by that run.                              *)
(***************************************************************************)
ListedSourceIds(source) ==
    {ItemSourceId(source, sync.listed[source][k]) :
        k \in {j \in 1..Len(sync.listed[source]) :
                  ~Skipped(source, sync.listed[source][j])}}

DocsLeft(source) ==
    SelectSeq(documents, LAMBDA r : r.metadata.source_id \in ListedSourceIds(source))

FirstRunReturned(source) ==
    /\ sync.runs = 1
    /\ source \in sync.returned
    /\ sync.fetch[source] = "listing"

C31_CountIsDocumentsLeft ==
    \A source \in SourceNames :
        FirstRunReturned(source) => sync.results[source] = Len(DocsLeft(source))

Next == NextStore \/ NextChat \/ NextStream \/ NextIngest \/ NextSync \/ NextLoop

Spec == Init /\ [][Next]_vars

=============================================================================
